---- MODULE Spec2Model ----
(***************************************************************************)
(* A state-machine model of the Telegram / OpenRouter worker               *)
(* (src/worker.js): the inbound dispatcher (fetch), the per-user session   *)
(* store (getUserSettings / setUserSettings over the USER_DATA key-value   *)
(* namespace) and the streaming completion engine (streamChatCompletion).  *)
(*                                                                         *)
(* Strings are sequences of one-character strings, so that split, trim,    *)
(* toLowerCase and the edit distance are computed as the code computes     *)
(* them.  Localized texts t(lang, key) are the pair <<lang, key>>.         *)
(***************************************************************************)
EXTENDS Integers, Sequences, FiniteSets, TLC

\* ------------------------------------------------------------------ bounds

\* lines in one provider stream
MaxLines == 2
\* tokens one reader.read() may deliver
MaxRead == 6
\* ticks of the wall clock in one behaviour
MaxTicks == 3
\* milliseconds per tick of the wall clock
TickMs == 1000
\* Date.now() at the start of a behaviour
Epoch == 5000
\* exceptions the environment may raise inside one streaming run
MaxFaults == 2
\* streaming runs started in one behaviour of the engine and of the
\* credential specification
MaxRuns == 1
\* streaming runs started in one behaviour of the dispatcher and of the race
\* specification
MaxAsks == 2
\* streaming runs in flight at the same time
MaxInFlight == 2
\* streaming runs started in one behaviour of the history specification
MaxDeep == 6
MaxToken == 3
MaxWord == 2
MaxList == 3

\* ------------------------------------------------------- program constants

MAX_HISTORY_MESSAGES == 10
updateInterval == 1500
CACHE_TTL == 14400

\* ----------------------------------------------------------------- strings

\* null: a one-element sequence that is no string of characters
Null == <<"#null">>

UpperChars == <<"A", "B", "E", "H", "K", "L", "O", "P", "S">>
LowerChars == <<"a", "b", "e", "h", "k", "l", "o", "p", "s">>

LowerChar(c) ==
    IF \E i \in 1..Len(UpperChars) : UpperChars[i] = c
    THEN LowerChars[CHOOSE i \in 1..Len(UpperChars) : UpperChars[i] = c]
    ELSE c

toLowerCase(s) == [i \in 1..Len(s) |-> LowerChar(s[i])]

IsSpace(c) == c \in {" ", "\n", "\t"}

RECURSIVE trimStart(_)
trimStart(s) ==
    IF s # <<>> /\ IsSpace(Head(s)) THEN trimStart(Tail(s)) ELSE s

RECURSIVE trimEnd(_)
trimEnd(s) ==
    IF s # <<>> /\ IsSpace(s[Len(s)]) THEN trimEnd(SubSeq(s, 1, Len(s) - 1)) ELSE s

trim(s) == trimEnd(trimStart(s))

startsWith(s, p) == Len(s) >= Len(p) /\ SubSeq(s, 1, Len(p)) = p

includes(s, p) ==
    \E i \in 1..(Len(s) - Len(p) + 1) : SubSeq(s, i, i + Len(p) - 1) = p

substring(s, n) == SubSeq(s, n + 1, Len(s))

\* s.split(sep) for a one-character separator: always at least one piece
RECURSIVE splitAcc(_, _, _, _)
splitAcc(s, sep, cur, acc) ==
    IF s = <<>> THEN Append(acc, cur)
    ELSE IF Head(s) = sep THEN splitAcc(Tail(s), sep, <<>>, Append(acc, cur))
    ELSE splitAcc(Tail(s), sep, Append(cur, Head(s)), acc)

split(s, sep) == splitAcc(s, sep, <<>>, <<>>)

RECURSIVE join(_, _)
join(parts, sep) ==
    IF parts = <<>> THEN <<>>
    ELSE IF Len(parts) = 1 THEN parts[1]
    ELSE parts[1] \o <<sep>> \o join(Tail(parts), sep)

Min2(a, b) == IF a < b THEN a ELSE b

\* variants of slice(-n) that the history properties must tell apart from it:
\* one that keeps everything, one that keeps the first n elements
sliceNothing(seq, n) == seq
sliceFirst(seq, n) == SubSeq(seq, 1, Min2(n, Len(seq)))
\* a variant that keeps one element less than slice(-n)
sliceShort(seq, n) ==
    IF Len(seq) <= n - 1 THEN seq ELSE SubSeq(seq, Len(seq) - n + 2, Len(seq))

\* the last n elements of a sequence: arr.slice(-n)
sliceLast(seq, n) ==
    IF Len(seq) <= n THEN seq ELSE SubSeq(seq, Len(seq) - n + 1, Len(seq))

\* ------------------------------------------------------- command matcher

\* the j-loop of one row i >= 1; costs is 1-based, costs[j + 1] is the code's
\* costs[j].  Returns the row's array and lastValue.
RECURSIVE levInner(_, _, _, _, _, _)
levInner(s1, s2, i, j, costs, lastValue) ==
    IF j > Len(s2) THEN <<costs, lastValue>>
    ELSE IF j = 0 THEN levInner(s1, s2, i, 1, costs, lastValue)
    ELSE LET diag == costs[j]
             newValue == IF s1[i] # s2[j]
                         THEN Min2(Min2(diag, lastValue), costs[j + 1]) + 1
                         ELSE diag
             newCosts == [costs EXCEPT ![j] = lastValue]
         \* the test only makes TLC compute both values before the next round
         IN IF newValue >= 0 /\ newCosts[j] >= 0
            THEN levInner(s1, s2, i, j + 1, newCosts, newValue)
            ELSE <<costs, lastValue>>

RECURSIVE levRows(_, _, _, _)
levRows(s1, s2, i, costs) ==
    IF i > Len(s1) THEN costs
    ELSE LET row == levInner(s1, s2, i, 0, costs, i)
             next == [row[1] EXCEPT ![Len(s2) + 1] = row[2]]
         IN IF next[Len(s2) + 1] >= 0 THEN levRows(s1, s2, i + 1, next) ELSE costs

\* a variant of levenshteinDistance that compares the strings as they are
distanceCaseSensitive(a, b) ==
    LET row0 == [j \in 1..(Len(b) + 1) |-> j - 1]
    IN levRows(a, b, 1, row0)[Len(b) + 1]

levenshteinDistance(a, b) ==
    LET s1 == toLowerCase(a)
        s2 == toLowerCase(b)
        row0 == [j \in 1..(Len(s2) + 1) |-> j - 1]
    IN levRows(s1, s2, 1, row0)[Len(s2) + 1]

CmdStart == <<"s", "t", "a", "r", "t">>
CmdSetkey == <<"s", "e", "t", "k", "e", "y">>
CmdChangemodel == <<"c", "h", "a", "n", "g", "e", "m", "o", "d", "e", "l">>
CmdSetsystemprompt ==
    <<"s", "e", "t", "s", "y", "s", "t", "e", "m", "p", "r", "o", "m", "p", "t">>
CmdResetsettings ==
    <<"r", "e", "s", "e", "t", "s", "e", "t", "t", "i", "n", "g", "s">>
CmdAsk == <<"a", "s", "k">>
CmdHelp == <<"h", "e", "l", "p">>
CmdNewchat == <<"n", "e", "w", "c", "h", "a", "t">>
CmdSearch == <<"s", "e", "a", "r", "c", "h">>
CmdSetlang == <<"s", "e", "t", "l", "a", "n", "g">>
CmdSetpersona == <<"s", "e", "t", "p", "e", "r", "s", "o", "n", "a">>
CmdTogglesearch == <<"t", "o", "g", "g", "l", "e", "s", "e", "a", "r", "c", "h">>
CmdManagetoken == <<"m", "a", "n", "a", "g", "e", "t", "o", "k", "e", "n">>

commands ==
    <<CmdStart, CmdSetkey, CmdChangemodel, CmdSetsystemprompt, CmdResetsettings,
      CmdAsk, CmdHelp, CmdNewchat, CmdSearch, CmdSetlang, CmdSetpersona,
      CmdTogglesearch, CmdManagetoken>>

\* a variant of the for-loop in which a later command at the same distance
\* replaces the best match
RECURSIVE bestOverLast(_, _, _, _)
bestOverLast(inputCmd, k, bestMatch, minDistance) ==
    IF k > Len(commands) THEN <<bestMatch, minDistance>>
    ELSE LET distance == levenshteinDistance(commands[k], inputCmd)
         IN IF distance <= minDistance /\ distance < 3
            THEN bestOverLast(inputCmd, k + 1, commands[k], distance)
            ELSE bestOverLast(inputCmd, k + 1, bestMatch, minDistance)

\* the for-loop over commands: <<bestMatch, minDistance>> after command k
RECURSIVE bestOver(_, _, _, _)
bestOver(inputCmd, k, bestMatch, minDistance) ==
    IF k > Len(commands) THEN <<bestMatch, minDistance>>
    ELSE LET distance == levenshteinDistance(commands[k], inputCmd)
         IN IF distance < minDistance
            THEN bestOver(inputCmd, k + 1, commands[k], distance)
            ELSE bestOver(inputCmd, k + 1, bestMatch, minDistance)

\* a variant of detectCommand without the tolerance for typing errors
detectExact(input) ==
    IF input = <<>> \/ ~startsWith(input, <<"/">>) THEN Null
    ELSE LET inputCmd == toLowerCase(substring(split(input, " ")[1], 1))
         IN IF \E k \in 1..Len(commands) : commands[k] = inputCmd THEN inputCmd ELSE Null

detectCommand(input) ==
    IF input = <<>> \/ ~startsWith(input, <<"/">>) THEN Null
    ELSE LET inputCmd == toLowerCase(substring(split(input, " ")[1], 1))
         IN IF inputCmd = <<>> THEN Null
            ELSE IF \E k \in 1..Len(commands) : commands[k] = inputCmd THEN inputCmd
            ELSE LET best == bestOver(inputCmd, 1, Null, 3)
                 IN IF best[2] <= 2 THEN best[1] ELSE Null

\* ------------------------------------------------------------------ state

VARIABLES
    env,        \* the worker's environment variables (fixed after Init)
    USER_DATA,  \* the USER_DATA namespace: user_<id> and msg_<id> records
    CACHE,      \* the CACHE namespace
    clock,      \* ticks of the wall clock; Date.now() is Now
    runs,       \* the streamChatCompletion invocations, indexed by message id
    last        \* what the most recent inbound event did

vars == <<env, USER_DATA, CACHE, clock, runs, last>>

Now == Epoch + clock * TickMs

UserIds == {1, 2}
Digits == <<"1", "2", "3">>
\* String(userId) for the one-digit ids of the model
String(userId) == <<Digits[userId]>>

userKey(userId) == <<"user", userId>>
msgKey(messageId) == <<"msg", messageId>>

\* localized text: t(lang, key)
t(lang, key) == <<IF lang \in {<<"e", "n">>, <<"i", "d">>} THEN lang ELSE <<"e", "n">>, key>>

\* a function with key k set to v (an object assignment, a KV put)
Put(f, k, v) == [j \in DOMAIN f \cup {k} |-> IF j = k THEN v ELSE f[j]]
\* a function without key k (an undefined property, a KV delete)
Del(f, k) == [j \in DOMAIN f \ {k} |-> f[j]]
\* f[k], or undefined / null
Has(f, k) == k \in DOMAIN f
Empty == [j \in {} |-> Null]

\* ---------------------------------------------------------- session store

LangEn == <<"e", "n">>
LangId == <<"i", "d">>
DEFAULT_MODEL_FALLBACK == <<"gpt-3.5">>
DEFAULT_PROMPT_FALLBACK == <<"helpful">>

\* a stored JSON value that is not an array
NotArray == [object |-> TRUE]
isArray(v) == DOMAIN v # DOMAIN NotArray

defaultSettings ==
    [language |-> IF Has(env, "DEFAULT_LANGUAGE") /\ env["DEFAULT_LANGUAGE"] = <<"i", "d">>
                  THEN LangId ELSE LangEn,
     model |-> IF Has(env, "DEFAULT_MODEL") THEN env["DEFAULT_MODEL"]
               ELSE DEFAULT_MODEL_FALLBACK,
     systemPrompt |-> IF Has(env, "DEFAULT_SYSTEM_PROMPT") THEN env["DEFAULT_SYSTEM_PROMPT"]
                      ELSE DEFAULT_PROMPT_FALLBACK,
     history |-> <<>>,
     searchEnabled |-> TRUE]

\* a variant of getUserSettings that returns the stored record as it is
getUserSettingsStored(kv, userId, getOk) ==
    IF ~getOk THEN defaultSettings
    ELSE IF Has(kv, userKey(userId)) THEN kv[userKey(userId)] ELSE defaultSettings

\* a variant of getUserSettings that spreads the stored record over the
\* defaults on a first read only, and returns the defaults on a read that
\* follows a read
getUserSettingsOnce(kv, userId, getOk) ==
    IF ~getOk \/ last.kind = "read" THEN defaultSettings
    ELSE LET stored == IF Has(kv, userKey(userId)) THEN kv[userKey(userId)] ELSE Empty
         IN [f \in DOMAIN defaultSettings \cup DOMAIN stored |->
                IF Has(stored, f) THEN stored[f] ELSE defaultSettings[f]]

\* getUserSettings: the stored record spread over the defaults, history
\* validated on its own; a failing KV get yields the defaults.  An
\* undefined property is a key outside the record's domain.
getUserSettings(kv, userId, getOk) ==
    IF ~getOk THEN defaultSettings
    ELSE LET stored == IF Has(kv, userKey(userId)) THEN kv[userKey(userId)] ELSE Empty
             history == IF Has(stored, "history") /\ isArray(stored["history"])
                        THEN stored["history"] ELSE <<>>
         IN [f \in DOMAIN defaultSettings \cup DOMAIN stored |->
                IF f = "history" THEN history
                ELSE IF Has(stored, f) THEN stored[f] ELSE defaultSettings[f]]

\* a variant of setUserSettings whose failing put leaves no record behind
setUserSettingsDropping(kv, userId, settings, putOk) ==
    IF putOk THEN Put(kv, userKey(userId), settings) ELSE Del(kv, userKey(userId))

\* setUserSettings: put JSON.stringify(settings); a failing put is logged only
setUserSettings(kv, userId, settings, putOk) ==
    IF putOk THEN Put(kv, userKey(userId), settings) ELSE kv

\* a variant of isUserAuthorized that compares the entries as they are written
isUserAuthorizedUntrimmed(userId) ==
    IF ~Has(env, "ALLOWED_USER_IDS") \/ env["ALLOWED_USER_IDS"] = <<>> THEN TRUE
    ELSE LET parts == split(env["ALLOWED_USER_IDS"], ",")
         IN \E k \in 1..Len(parts) : parts[k] = String(userId)

\* env.ALLOWED_USER_IDS.split(',').map(trim).includes(String(userId))
isUserAuthorized(userId) ==
    IF ~Has(env, "ALLOWED_USER_IDS") \/ env["ALLOWED_USER_IDS"] = <<>> THEN TRUE
    ELSE LET parts == split(env["ALLOWED_USER_IDS"], ",")
         IN \E k \in 1..Len(parts) : trim(parts[k]) = String(userId)


\* ------------------------------------------------- streaming completion

\* The provider's response body is a sequence of tokens.  "D" is the data
\* prefix 'data: ', "NL" the newline; between them one payload token:
\* "a" and "sp" are chunks whose delta.content is "a" and " ", "nul" a chunk
\* without content, "DONE" the terminator [DONE], "bad" malformed JSON.  "c"
\* is a line that does not start with the data prefix.  A read may cut the
\* body between any two tokens.
LineA == <<"D", "a", "NL">>
LineSp == <<"D", "sp", "NL">>
LineNul == <<"D", "nul", "NL">>
LineDone == <<"D", "DONE", "NL">>
LineBad == <<"D", "bad", "NL">>
LineComment == <<"c", "NL">>
LineKinds == {LineA, LineSp, LineDone, LineBad, LineComment, LineNul}

RECURSIVE flatten(_)
flatten(ls) == IF ls = <<>> THEN <<>> ELSE Head(ls) \o flatten(Tail(ls))

SeqsUpTo(S, n) == UNION {[1..k -> S] : k \in 0..n}

\* every body of at most n lines, with and without its last newline
Streams(n) ==
    LET whole == {flatten(ls) : ls \in SeqsUpTo(LineKinds, n)}
    IN {w : w \in whole \cup {SubSeq(w, 1, Len(w) - 1) : w \in whole \ {<<>>}}}

\* JSON.parse(dataContent) succeeds
parseOk(dataContent) == Len(dataContent) = 1 /\ dataContent[1] \in {"a", "sp", "nul"}
\* chunk.choices[0].delta.content, the empty string when there is none
deltaContent(dataContent) ==
    IF dataContent[1] = "a" THEN <<"a">>
    ELSE IF dataContent[1] = "sp" THEN <<" ">> ELSE <<>>

\* a variant of the truthiness test under which every credential check passes
alwaysTruthy(settings, f) == TRUE

\* !settings[f] is false: the property is there and is not the empty string
Truthy(settings, f) == Has(settings, f) /\ settings[f] # <<>>

userEntry(content) == [role |-> "user", content |-> content]
assistantEntry(content) == [role |-> "assistant", content |-> content]

\* the invocation streamChatCompletion(env, chatId, messageId, settings, userPrompt, userId)
NewRun(messageId, settings, userPrompt, userId) ==
    [messageId |-> messageId, settings |-> settings, userPrompt |-> userPrompt,
     userId |-> userId,
     pc |-> "start", state |-> "STARTED",
     wire |-> <<>>, buffer |-> <<>>, lines |-> <<>>,
     body |-> <<>>,         \* the response body as the provider sent it
     currentMessage |-> <<>>, lastUpdateTime |-> 0,
     \* observations
     requests |-> 0,        \* requests issued to the completion provider
     edits |-> <<>>,        \* the editMessageText calls, in order
     commit |-> <<>>,       \* the history handed to setUserSettings, if any
     stored |-> FALSE,      \* that put succeeded
     doneSeen |-> FALSE,    \* the terminator line was consumed
     lateContent |-> FALSE, \* a fragment was appended after the terminator
     parseErrors |-> 0,     \* the data lines JSON.parse rejected
     afterError |-> FALSE,  \* a fragment was appended after such a line
     thrown |-> <<>>,       \* the calls that threw
     faults |-> 0,
     during |-> {}]         \* the runs in flight when this one was invoked

lang(run) == IF Truthy(run.settings, "language") THEN run.settings["language"] ELSE LangEn

\* an editMessageText call that returned
\* a variant of addEdit that pushes the end of the text only
addEditDelta(run, kind, text) ==
    [run EXCEPT !.edits = Append(@, [kind |-> kind, text |-> <<text[Len(text)]>>, at |-> Now,
                                     ok |-> TRUE])]

addEdit(run, kind, text) ==
    [run EXCEPT !.edits = Append(@, [kind |-> kind, text |-> text, at |-> Now, ok |-> TRUE])]

threw(run, site) ==
    [run EXCEPT !.thrown = Append(@, site), !.faults = @ + 1]

\* an editMessageText call that threw
failedEdit(run, kind, text, site) ==
    threw([run EXCEPT !.edits = Append(@, [kind |-> kind, text |-> text, at |-> Now,
                                           ok |-> FALSE])], site)

finish(run, state) == [run EXCEPT !.pc = "done", !.state = state]

\* the sets of calls that may throw in one step of a run
FaultSets(run, sites, maxFaults) ==
    {T \in SUBSET sites : T = {} \/ Cardinality(T) <= maxFaults - run.faults}

\* the outer catch: edit with the failure notice, delete the side record;
\* either call throwing ends the invocation at once
catch(run, kv, T) ==
    IF "catch_edit" \in T
    THEN [run |-> finish(failedEdit(run, "failure", t(lang(run), "ask_error"), "catch_edit"),
                         "FAILED"),
          kv |-> kv]
    ELSE LET r1 == addEdit(run, "failure", t(lang(run), "ask_error"))
         IN IF "catch_delete" \in T
            THEN [run |-> finish(threw(r1, "catch_delete"), "FAILED"), kv |-> kv]
            ELSE [run |-> finish(r1, "FAILED"), kv |-> Del(kv, msgKey(run.messageId))]

\* from the call to the first read: the credential check and the request
startStep(run, kv, T, response, body) ==
    IF ~Truthy(run.settings, "apiKey")
    THEN IF "edit_keyreq" \in T
         THEN [run |-> finish(failedEdit(run, "keyreq", t(lang(run), "key_required"),
                                         "edit_keyreq"), "FAILED"),
               kv |-> kv]
         ELSE [run |-> finish(addEdit(run, "keyreq", t(lang(run), "key_required")), "FAILED"),
               kv |-> kv]
    ELSE LET r1 == [run EXCEPT !.requests = @ + 1]
         IN IF "fetch" \in T THEN catch(threw(r1, "fetch"), kv, T)
            ELSE IF response = "notok"
            THEN IF "edit_status" \in T
                 THEN catch(failedEdit(r1, "status", t(lang(run), "ask_error_status"),
                                       "edit_status"), kv, T)
                 ELSE [run |-> finish(addEdit(r1, "status", t(lang(run), "ask_error_status")), "FAILED"),
                       kv |-> kv]
            ELSE IF response = "nobody" THEN catch(threw(r1, "body"), kv, T)
            ELSE [run |-> [r1 EXCEPT !.pc = "read", !.state = "STREAMING", !.wire = body,
                           !.body = body],
                  kv |-> kv]

\* one reader.read() delivering the next n tokens, or done when none is left.
\* A body that ends with "OPEN" is one the provider never closes: when the
\* tokens before it are read, every further read delivers a keep-alive line.
readStep(run, kv, T, n) ==
    IF "read" \in T THEN catch(threw(run, "read"), kv, T)
    ELSE IF run.wire = <<>> THEN [run |-> [run EXCEPT !.pc = "final"], kv |-> kv]
    ELSE LET open == run.wire[Len(run.wire)] = "OPEN"
             avail == IF open THEN Len(run.wire) - 1 ELSE Len(run.wire)
             taken == Min2(n, avail)
             value == IF avail = 0 THEN LineComment ELSE SubSeq(run.wire, 1, taken)
             parts == split(run.buffer \o value, "NL")
             lines == SubSeq(parts, 1, Len(parts) - 1)
         IN [run |-> [run EXCEPT !.wire = SubSeq(@, taken + 1, Len(@)),
                                 !.buffer = parts[Len(parts)],
                                 !.lines = lines,
                                 !.pc = IF lines = <<>> THEN "read" ELSE "lines"],
             kv |-> kv]

\* the throttled edit of the line loop; every exception in it is caught by the
\* catch around JSON.parse and the loop goes on
throttledEdit(run, kv, T) ==
    LET now == Now
        key == msgKey(run.messageId)
    IN IF ~(now - run.lastUpdateTime > updateInterval) THEN [run |-> run, kv |-> kv]
       ELSE IF "kv_get" \in T THEN [run |-> threw(run, "kv_get"), kv |-> kv]
       ELSE IF ~(trim(run.currentMessage) # <<>>
                 /\ (~Has(kv, key) \/ run.currentMessage # kv[key]))
       THEN [run |-> run, kv |-> kv]
       ELSE IF "edit" \in T
       THEN [run |-> failedEdit(run, "interim", run.currentMessage, "edit"), kv |-> kv]
       ELSE LET r1 == addEdit(run, "interim", run.currentMessage)
            IN IF "kv_put" \in T THEN [run |-> threw(r1, "kv_put"), kv |-> kv]
               ELSE [run |-> [r1 EXCEPT !.lastUpdateTime = now],
                     kv |-> Put(kv, key, run.currentMessage)]

\* a variant of the line loop without the catch around JSON.parse: a line
\* that does not parse ends the run in the outer catch
lineStepAborting(run, kv, T) ==
    LET line == Head(run.lines)
        rest == Tail(run.lines)
        next(r) == [r EXCEPT !.lines = rest, !.pc = IF rest = <<>> THEN "read" ELSE "lines"]
        dataContent == Tail(line)
    IN IF ~startsWith(line, <<"D">>) THEN [run |-> next(run), kv |-> kv]
       ELSE IF dataContent = <<"DONE">>
       THEN [run |-> [run EXCEPT !.lines = <<>>, !.pc = "read", !.doneSeen = TRUE], kv |-> kv]
       ELSE IF ~parseOk(dataContent)
       THEN catch([run EXCEPT !.parseErrors = @ + 1], kv, {})
       ELSE IF deltaContent(dataContent) = <<>> THEN [run |-> next(run), kv |-> kv]
       ELSE LET r1 == [run EXCEPT !.currentMessage = @ \o deltaContent(dataContent),
                                  !.lateContent = @ \/ run.doneSeen,
                                  !.afterError = @ \/ run.parseErrors > 0]
                res == throttledEdit(r1, kv, T)
            IN [run |-> next(res.run), kv |-> res.kv]

\* one round of the for-loop over the lines of a read
lineStep(run, kv, T) ==
    LET line == Head(run.lines)
        rest == Tail(run.lines)
        next(r) == [r EXCEPT !.lines = rest, !.pc = IF rest = <<>> THEN "read" ELSE "lines"]
        dataContent == Tail(line)
    IN IF ~startsWith(line, <<"D">>) THEN [run |-> next(run), kv |-> kv]
       ELSE IF dataContent = <<"DONE">>
       THEN [run |-> [run EXCEPT !.lines = <<>>, !.pc = "read", !.doneSeen = TRUE], kv |-> kv]
       ELSE IF ~parseOk(dataContent)
       THEN [run |-> next([run EXCEPT !.parseErrors = @ + 1]), kv |-> kv]
       ELSE IF deltaContent(dataContent) = <<>> THEN [run |-> next(run), kv |-> kv]
       ELSE LET r1 == [run EXCEPT !.currentMessage = @ \o deltaContent(dataContent),
                                  !.lateContent = @ \/ run.doneSeen,
                                  !.afterError = @ \/ run.parseErrors > 0]
                res == throttledEdit(r1, kv, T)
            IN [run |-> next(res.run), kv |-> res.kv]

\* a variant of the end of the run that commits onto the stored session (read
\* again at the commit) where the code commits onto its snapshot
finalStepOnStored(run, kv, T) ==
    LET finalMessage == trim(run.currentMessage)
        current == getUserSettings(kv, run.userId, TRUE)
        key == msgKey(run.messageId)
    IN IF "final_edit" \in T
       THEN catch(failedEdit(run, IF finalMessage # <<>> THEN "final" ELSE "nocontent",
                             IF finalMessage # <<>> THEN finalMessage
                             ELSE t(lang(run), "ask_error_no_content"), "final_edit"), kv, T)
       ELSE IF finalMessage # <<>>
       THEN LET r1 == addEdit(run, "final", finalMessage)
                newHistory == sliceLast(current["history"]
                                            \o <<userEntry(run.userPrompt),
                                                 assistantEntry(finalMessage)>>,
                                        MAX_HISTORY_MESSAGES)
                updatedSettings == Put(current, "history", newHistory)
                kv1 == setUserSettings(kv, run.userId, updatedSettings, "settings_put" \notin T)
                r2 == [r1 EXCEPT !.commit = <<newHistory>>,
                                 !.stored = "settings_put" \notin T,
                                 !.faults = IF "settings_put" \in T THEN @ + 1 ELSE @]
            IN IF "delete" \in T THEN catch(threw(r2, "delete"), kv1, T)
               ELSE [run |-> finish(r2, "COMPLETED"), kv |-> Del(kv1, key)]
       ELSE LET r1 == addEdit(run, "nocontent", t(lang(run), "ask_error_no_content"))
            IN IF "delete" \in T THEN catch(threw(r1, "delete"), kv, T)
               ELSE [run |-> finish(r1, "FAILED"), kv |-> Del(kv, key)]

\* a variant of the end of the run in which the final edit is throttled like
\* the edits of the line loop
finalStepThrottled(run, kv, T) ==
    LET finalMessage == trim(run.currentMessage)
        key == msgKey(run.messageId)
        r1 == IF Now - run.lastUpdateTime > updateInterval
              THEN addEdit(run, IF finalMessage # <<>> THEN "final" ELSE "nocontent",
                           IF finalMessage # <<>> THEN finalMessage
                           ELSE t(lang(run), "ask_error_no_content"))
              ELSE run
    IN [run |-> finish(r1, IF finalMessage # <<>> THEN "COMPLETED" ELSE "FAILED"),
        kv |-> Del(kv, key)]

\* after the read loop: the final edit, the history commit, the cleanup
finalStep(run, kv, T) ==
    LET finalMessage == trim(run.currentMessage)
        history == IF Has(run.settings, "history") THEN run.settings["history"] ELSE <<>>
        key == msgKey(run.messageId)
    IN IF "final_edit" \in T
       THEN catch(failedEdit(run, IF finalMessage # <<>> THEN "final" ELSE "nocontent",
                             IF finalMessage # <<>> THEN finalMessage
                             ELSE t(lang(run), "ask_error_no_content"), "final_edit"), kv, T)
       ELSE IF finalMessage # <<>>
       THEN LET r1 == addEdit(run, "final", finalMessage)
                newHistory == sliceLast(history \o <<userEntry(run.userPrompt),
                                                     assistantEntry(finalMessage)>>,
                                        MAX_HISTORY_MESSAGES)
                updatedSettings == Put(run.settings, "history", newHistory)
                kv1 == setUserSettings(kv, run.userId, updatedSettings, "settings_put" \notin T)
                r2 == [r1 EXCEPT !.commit = <<newHistory>>,
                                 !.stored = "settings_put" \notin T,
                                 !.faults = IF "settings_put" \in T THEN @ + 1 ELSE @]
            IN IF "delete" \in T THEN catch(threw(r2, "delete"), kv1, T)
               ELSE [run |-> finish(r2, "COMPLETED"), kv |-> Del(kv1, key)]
       ELSE LET r1 == addEdit(run, "nocontent", t(lang(run), "ask_error_no_content"))
            IN IF "delete" \in T THEN catch(threw(r1, "delete"), kv, T)
               ELSE [run |-> finish(r1, "FAILED"), kv |-> Del(kv, key)]

\* ------------------------------------------------------------ dispatcher

PERSONAS ==
    (<<"d", "e", "f", "a", "u", "l", "t">> :> <<"#persona default">>)
    @@ (<<"c", "o", "d", "e", "r">> :> <<"#persona coder">>)

PfxModelpage == <<"m", "o", "d", "e", "l", "p", "a", "g", "e", "_">>
PfxSetmodel == <<"s", "e", "t", "m", "o", "d", "e", "l", "_">>
PfxSetpersona == <<"s", "e", "t", "p", "e", "r", "s", "o", "n", "a", "_">>
DataSearchOn == <<"t", "o", "g", "g", "l", "e", "s", "e", "a", "r", "c", "h", "_", "o", "n">>
DataSearchOff == <<"t", "o", "g", "g", "l", "e", "s", "e", "a", "r", "c", "h", "_", "o", "f", "f">>
DataRevoke == <<"r", "e", "v", "o", "k", "e", "t", "o", "k", "e", "n">>
DataCheck == <<"c", "h", "e", "c", "k", "t", "o", "k", "e", "n">>
Ringkas == <<"r", "i", "n", "g", "k", "a", "s">>
CueWords == {<<"t", "e", "n", "t", "a", "n", "g">>, <<"a", "b", "o", "u", "t">>, <<"h", "a", "s", "i", "l">>, <<"r", "e", "s", "u", "l", "t">>}
hour == 3600000

lastSearchKey(userId) == <<"last_search", userId>>
searchKey(query) == <<"search", query>>

send(text) == <<"sendMessage", text>>
edit(text) == <<"editMessageText", text>>
answer(text) == <<"answerCallbackQuery", text>>

\* a variant of verifyOpenRouterKey that accepts every key
verifyAlways(apiKey, o) == TRUE
\* verifyOpenRouterKey: response.ok of GET /auth/key, false when the request throws
verifyOpenRouterKey(apiKey, o) == o.verifyOk

\* what one handler invocation did: the transport calls, the session to put
\* (none, or one), the streaming run to start (none, or one), the CACHE
\* namespace afterwards, and whether the writes come after a transport call
Result(sent, put, run, cache, late) ==
    [sent |-> sent, put |-> put, run |-> run, cache |-> cache, late |-> late]
\* a variant of Reply that persists the defaults a first read created
ReplyStoring(sent) == Result(sent, <<defaultSettings>>, <<>>, CACHE, FALSE)
\* a variant of Reply that makes every transport call twice
ReplyTwice(sent) == Result(sent \o sent, <<>>, <<>>, CACHE, FALSE)
Reply(sent) == Result(sent, <<>>, <<>>, CACHE, FALSE)
\* a variant of Save that stores the session with an empty history
SaveWithoutHistory(settings, sent) ==
    Result(sent, <<Put(settings, "history", <<>>)>>, <<>>, CACHE, FALSE)
Save(settings, sent) == Result(sent, <<settings>>, <<>>, CACHE, FALSE)
\* a variant of Start that leaves streamChatCompletion out
StartNothing(settings, prompt, sent) == Reply(sent)
Start(settings, prompt, sent) ==
    Result(sent, <<>>, <<[settings |-> settings, prompt |-> prompt]>>, CACHE, TRUE)

\* an entry of the CACHE namespace is [value, expires]: a put with
\* expirationTtl makes the key unreadable from that time on
live(kv, key) == Has(kv, key) /\ Now < kv[key].expires

\* a variant of getCachedSearch on a store that never expires a key
getCachedSearchStale(query, cacheGetOk) ==
    IF cacheGetOk /\ Has(CACHE, searchKey(query)) THEN CACHE[searchKey(query)].value
    ELSE Null

\* a variant of getCachedSearch for which a stored empty list is no entry
getCachedSearchNonEmpty(query, cacheGetOk) ==
    IF cacheGetOk /\ live(CACHE, searchKey(query)) /\ CACHE[searchKey(query)].value # <<>>
    THEN CACHE[searchKey(query)].value
    ELSE Null

\* getCachedSearch: the stored value, or null when there is none, when it
\* has expired, or when the read throws
getCachedSearch(query, cacheGetOk) ==
    IF cacheGetOk /\ live(CACHE, searchKey(query)) THEN CACHE[searchKey(query)].value
    ELSE Null

\* setCachedSearch: a put with expirationTtl CACHE_TTL; a put that throws is
\* logged
setCachedSearch(cache, query, results, cachePutOk) ==
    IF cachePutOk
    THEN Put(cache, searchKey(query), [value |-> results, expires |-> Now + CACHE_TTL * 1000])
    ELSE cache

\* a variant of searchWithFallback that asks the fallback provider first
searchFallbackFirst(query, o) ==
    LET cachedResults == getCachedSearch(query, o.cacheGetOk)
        primary == Has(env, "GOOGLE_API_KEY") /\ Has(env, "GOOGLE_CX")
        first == IF Has(env, "BING_API_KEY") THEN <<"bing">> ELSE <<>>
    IN IF cachedResults # Null
       THEN [ok |-> TRUE, results |-> cachedResults, cache |-> CACHE, calls |-> <<>>,
             hit |-> TRUE]
       ELSE IF Has(env, "BING_API_KEY") /\ o.bing.ok
       THEN [ok |-> TRUE, results |-> o.bing.results,
             cache |-> setCachedSearch(CACHE, query, o.bing.results, o.cachePutOk),
             calls |-> first, hit |-> FALSE]
       ELSE IF primary /\ o.google.ok
       THEN [ok |-> TRUE, results |-> o.google.results,
             cache |-> setCachedSearch(CACHE, query, o.google.results, o.cachePutOk),
             calls |-> first \o <<"google">>, hit |-> FALSE]
       ELSE [ok |-> FALSE, results |-> <<>>, cache |-> CACHE,
             calls |-> first \o (IF primary THEN <<"google">> ELSE <<>>), hit |-> FALSE]

\* a variant of searchWithFallback that answers with an empty list, and
\* stores it, when no provider answered
searchNeverFailing(query, o) ==
    LET cachedResults == getCachedSearch(query, o.cacheGetOk)
        primary == Has(env, "GOOGLE_API_KEY") /\ Has(env, "GOOGLE_CX")
        first == IF primary THEN <<"google">> ELSE <<>>
        second == IF Has(env, "BING_API_KEY") THEN <<"bing">> ELSE <<>>
    IN IF cachedResults # Null
       THEN [ok |-> TRUE, results |-> cachedResults, cache |-> CACHE, calls |-> <<>>,
             hit |-> TRUE]
       ELSE IF primary /\ o.google.ok
       THEN [ok |-> TRUE, results |-> o.google.results,
             cache |-> setCachedSearch(CACHE, query, o.google.results, o.cachePutOk),
             calls |-> first, hit |-> FALSE]
       ELSE IF Has(env, "BING_API_KEY") /\ o.bing.ok
       THEN [ok |-> TRUE, results |-> o.bing.results,
             cache |-> setCachedSearch(CACHE, query, o.bing.results, o.cachePutOk),
             calls |-> first \o second, hit |-> FALSE]
       ELSE [ok |-> TRUE, results |-> <<>>,
             cache |-> setCachedSearch(CACHE, query, <<>>, o.cachePutOk),
             calls |-> first \o second, hit |-> FALSE]

\* searchWithFallback: the cache, then the primary, then the fallback; a
\* provider's outcome is [ok, results]; calls lists the providers called
searchWithFallback(query, o) ==
    LET cachedResults == getCachedSearch(query, o.cacheGetOk)
        primary == Has(env, "GOOGLE_API_KEY") /\ Has(env, "GOOGLE_CX")
        first == IF primary THEN <<"google">> ELSE <<>>
    IN IF cachedResults # Null
       THEN [ok |-> TRUE, results |-> cachedResults, cache |-> CACHE, calls |-> <<>>,
             hit |-> TRUE]
       ELSE IF primary /\ o.google.ok
       THEN [ok |-> TRUE, results |-> o.google.results,
             cache |-> setCachedSearch(CACHE, query, o.google.results, o.cachePutOk),
             calls |-> first, hit |-> FALSE]
       ELSE IF ~Has(env, "BING_API_KEY")
       THEN [ok |-> FALSE, results |-> <<>>, cache |-> CACHE, calls |-> first, hit |-> FALSE]
       ELSE IF o.bing.ok
       THEN [ok |-> TRUE, results |-> o.bing.results,
             cache |-> setCachedSearch(CACHE, query, o.bing.results, o.cachePutOk),
             calls |-> first \o <<"bing">>, hit |-> FALSE]
       ELSE [ok |-> FALSE, results |-> <<>>, cache |-> CACHE, calls |-> first \o <<"bing">>,
             hit |-> FALSE]

\* what a call of searchWithFallback did, as an observation: the query, the
\* environment's part (o) and the outcome
searched(query, o, found) ==
    <<[query |-> query, ok |-> found.ok, results |-> found.results, calls |-> found.calls,
       hit |-> found.hit, google |-> o.google, bing |-> o.bing,
       cacheGetOk |-> o.cacheGetOk, cachePutOk |-> o.cachePutOk]>>

\* a variant of the reset that keeps the whole session
newSettingsKeepingAll(userSettings) == userSettings

\* the record /resetsettings stores: the language alone
newSettings(userSettings) == [language |-> userSettings["language"]]

\* the switch over the detected command
commandResult(userId, userSettings, detectedCommand, argString, o) ==
    LET lg == userSettings["language"]
        arg == trim(argString)
    IN CASE detectedCommand = CmdStart ->
              Reply(<<send(t(lg, IF Truthy(userSettings, "apiKey")
                                 THEN "start_welcome_authorized" ELSE "start_welcome"))>>)
         [] detectedCommand = CmdSetkey ->
              IF arg = <<>> THEN Reply(<<send(t(lg, "key_set_invalid"))>>)
              ELSE Put(IF verifyOpenRouterKey(arg, o)
                       THEN Save(Put(userSettings, "apiKey", arg),
                                 <<send(t(lg, "key_set_success"))>>)
                       ELSE Reply(<<send(t(lg, "key_verification_failed"))>>),
                       "verify", <<o.verifyOk>>)
         [] detectedCommand = CmdChangemodel ->
              IF ~Truthy(userSettings, "apiKey") THEN Reply(<<send(t(lg, "key_required"))>>)
              ELSE Reply(<<send(t(lg, "models_list_fetching")),
                           send(t(lg, CASE o.models = "ok" -> "change_model_prompt"
                                        [] o.models = "empty" -> "models_list_error_nodata"
                                        [] OTHER -> "models_list_error_generic"))>>)
         [] detectedCommand = CmdSetsystemprompt ->
              IF arg # <<>>
              THEN Save(Put(userSettings, "systemPrompt", arg),
                        <<send(t(lg, "system_prompt_set_success"))>>)
              ELSE Save(Put(userSettings, "systemPrompt", defaultSettings["systemPrompt"]),
                        <<send(t(lg, "system_prompt_reset_success"))>>)
         [] detectedCommand = CmdResetsettings ->
              Save(newSettings(userSettings), <<send(t(lg, "settings_reset_success"))>>)
         [] detectedCommand = CmdAsk ->
              IF arg = <<>> THEN Reply(<<send(t(lg, "ask_invalid"))>>)
              ELSE IF ~Truthy(userSettings, "apiKey") THEN Reply(<<send(t(lg, "key_required"))>>)
              ELSE IF includes(toLowerCase(arg), Ringkas)
              THEN IF live(CACHE, lastSearchKey(userId))
                      /\ Len(CACHE[lastSearchKey(userId)].value.results) > 0
                   THEN IF ~o.sendOk
                        THEN Reply(<<send(t(lg, "summary_thinking")), send(t(lg, "generic_error"))>>)
                        ELSE Start(userSettings,
                                   <<"#summary">> \o CACHE[lastSearchKey(userId)].value.query,
                                   <<send(t(lg, "summary_thinking"))>>)
                   ELSE Reply(<<send(t(lg, "summary_no_results"))>>)
              ELSE IF ~o.sendOk
              THEN Reply(<<send(t(lg, "ask_thinking")), send(t(lg, "generic_error"))>>)
              ELSE LET related ==
                           /\ Truthy(userSettings, "lastSearchQuery")
                           /\ Has(userSettings, "lastSearchTimestamp")
                           /\ userSettings["lastSearchTimestamp"] # 0
                           /\ Now - userSettings["lastSearchTimestamp"] < hour
                           /\ \E w \in CueWords : includes(toLowerCase(arg), w)
                       finalQuestion ==
                           IF related
                           THEN <<"#about">> \o userSettings["lastSearchQuery"] \o <<":">> \o arg
                           ELSE arg
                   IN Start(userSettings, finalQuestion, <<send(t(lg, "ask_thinking"))>>)
         [] detectedCommand = CmdNewchat ->
              Save(Put(userSettings, "history", <<>>), <<send(t(lg, "new_chat_success"))>>)
         [] detectedCommand = CmdSearch ->
              IF arg = <<>> THEN Reply(<<send(t(lg, "search_invalid"))>>)
              ELSE IF ~userSettings["searchEnabled"]
              THEN Reply(<<send(t(lg, "search_toggle_disabled"))>>)
              ELSE IF ~(Has(env, "GOOGLE_API_KEY") /\ Has(env, "GOOGLE_CX"))
              THEN Reply(<<send(t(lg, "search_keys_missing"))>>)
              ELSE IF ~o.sendOk
              THEN Reply(<<send(t(lg, "search_thinking")), send(t(lg, "generic_error"))>>)
              ELSE LET found == searchWithFallback(arg, o)
                       responseText == IF Len(found.results) > 0
                                       THEN t(lg, "search_results_title") \o found.results
                                       ELSE t(lg, "search_no_results")
                       res == IF ~found.ok \/ ~o.lastPutOk
                              THEN Result(<<send(t(lg, "search_thinking")),
                                            edit(t(lg, "search_error"))>>,
                                          <<>>, <<>>, found.cache, TRUE)
                              ELSE Result(<<send(t(lg, "search_thinking")), edit(responseText)>>,
                                          <<Put(Put(userSettings, "lastSearchQuery", arg),
                                                "lastSearchTimestamp", Now)>>,
                                          <<>>,
                                          Put(found.cache, lastSearchKey(userId),
                                              [value |-> [query |-> arg,
                                                          results |-> found.results,
                                                          timestamp |-> Now],
                                               expires |-> Now + 3600 * 1000]),
                                          TRUE)
                   IN Put(res, "search", searched(arg, o, found))
         [] detectedCommand = CmdSetlang ->
              LET targetLang == toLowerCase(arg)
              IN IF targetLang = LangEn \/ targetLang = LangId
                 THEN Save(Put(userSettings, "language", targetLang),
                           <<send(t(targetLang, "lang_set_success"))>>)
                 ELSE IF targetLang = <<>> THEN Reply(<<send(t(lg, "lang_select_prompt"))>>)
                 ELSE Reply(<<send(t(lg, "lang_set_invalid"))>>)
         [] detectedCommand = CmdSetpersona ->
              LET personaName == toLowerCase(arg)
              IN IF personaName = <<>> THEN Reply(<<send(t(lg, "persona_select_prompt"))>>)
                 ELSE IF Has(PERSONAS, personaName)
                 THEN Save(Put(userSettings, "systemPrompt", PERSONAS[personaName]),
                           <<send(t(lg, "persona_set_success"))>>)
                 ELSE Reply(<<send(t(lg, "persona_set_invalid"))>>)
         [] detectedCommand = CmdTogglesearch ->
              Reply(<<send(t(lg, "search_toggle_status"))>>)
         [] detectedCommand = CmdManagetoken ->
              IF ~Truthy(userSettings, "apiKey") THEN Reply(<<send(t(lg, "key_required"))>>)
              ELSE Reply(<<send(t(lg, "token_management_prompt"))>>)
         [] detectedCommand = CmdHelp -> Reply(<<send(t(lg, "help_current_settings"))>>)
         [] OTHER -> Reply(<<send(t(lg, "help"))>>)

\* the inbound texts and callback data of the specifications
TextSetkey == <<"/", "s", "e", "t", "k", "e", "y", " ", "k">>
TextAskP == <<"/", "a", "s", "k", " ", "p">>
TextAskQ == <<"/", "a", "s", "k", " ", "q">>
TextAskNone == <<"/", "a", "s", "k">>
TextPlain == <<"h", "i">>
TextNewchat == <<"/", "n", "e", "w", "c", "h", "a", "t">>
TextReset == <<"/", "r", "e", "s", "e", "t", "s", "e", "t", "t", "i", "n", "g", "s">>
TextUnknown == <<"/", "z", "z", "z", "z", "z", "z">>
TextBare == <<"/", " ", "x">>
TextStart == <<"/", "s", "t", "a", "r", "t">>
TextSearchQ == <<"/", "s", "e", "a", "r", "c", "h", " ", "q">>
DataSetmodel == <<"s", "e", "t", "m", "o", "d", "e", "l", "_", "m">>
DataSetpersona == <<"s", "e", "t", "p", "e", "r", "s", "o", "n", "a", "_", "c", "o", "d", "e", "r">>
DataModelpage == <<"m", "o", "d", "e", "l", "p", "a", "g", "e", "_", "2">>

\* the initial response of the provider: 2xx with a body, not 2xx, 2xx without a body
Responses == {"ok", "notok", "nobody"}

\* the commands that set one field of the session, with and without a valid
\* argument, and the commands that only read it
FrameTexts ==
    {<<"/", "s", "e", "t", "s", "y", "s", "t", "e", "m", "p", "r", "o", "m", "p", "t", " ", "x">>,
     <<"/", "s", "e", "t", "s", "y", "s", "t", "e", "m", "p", "r", "o", "m", "p", "t">>,
     <<"/", "s", "e", "t", "p", "e", "r", "s", "o", "n", "a", " ", "c", "o", "d", "e", "r">>,
     <<"/", "s", "e", "t", "p", "e", "r", "s", "o", "n", "a">>,
     <<"/", "s", "e", "t", "p", "e", "r", "s", "o", "n", "a", " ", "z", "z">>,
     <<"/", "s", "e", "t", "l", "a", "n", "g", " ", "i", "d">>,
     <<"/", "s", "e", "t", "l", "a", "n", "g">>,
     <<"/", "s", "e", "t", "l", "a", "n", "g", " ", "x", "x">>,
     <<"/", "s", "e", "t", "k", "e", "y">>,
     <<"/", "h", "e", "l", "p">>,
     <<"/", "t", "o", "g", "g", "l", "e", "s", "e", "a", "r", "c", "h">>,
     <<"/", "m", "a", "n", "a", "g", "e", "t", "o", "k", "e", "n">>,
     <<"/", "c", "h", "a", "n", "g", "e", "m", "o", "d", "e", "l">>}

\* detectCommand on every text a specification sends, computed once
Texts ==
    {TextSetkey, TextAskP, TextAskQ, TextAskNone, TextPlain, TextNewchat, TextReset,
     TextUnknown, TextBare, TextStart, TextSearchQ} \cup FrameTexts
detected == [text \in Texts |-> detectCommand(text)]

\* fetch for an update that carries a message
messageResult(userId, text, o) ==
    IF ~isUserAuthorized(userId)
    THEN [res |-> Reply(<<send(t(LangEn, "unauthorized")),
                          send(t(defaultSettings["language"], "unauthorized"))>>),
          ops |-> <<>>, http |-> 403, keyed |-> FALSE]
    ELSE LET userSettings == getUserSettings(USER_DATA, userId, o.getOk)
             lg == userSettings["language"]
             detectedCommand == detected[text]
             argString == join(Tail(split(text, " ")), " ")
             res == IF detectedCommand # Null
                    THEN commandResult(userId, userSettings, detectedCommand, argString, o)
                    ELSE IF startsWith(text, <<"/">>) THEN Reply(<<send(t(lg, "help"))>>)
                    ELSE IF trim(text) # <<>>
                    THEN IF ~Truthy(userSettings, "apiKey")
                         THEN Reply(<<send(t(lg, "key_required"))>>)
                         ELSE IF ~o.sendOk THEN Reply(<<send(t(lg, "ask_thinking"))>>)
                         ELSE Start(userSettings, text, <<send(t(lg, "ask_thinking"))>>)
                    ELSE Reply(<<>>)
         IN [res |-> res,
             ops |-> <<<<"get", userKey(userId)>>>>
                     \o (IF res.put # <<>> THEN <<<<"put", userKey(userId)>>>> ELSE <<>>),
             http |-> 200, keyed |-> Truthy(userSettings, "apiKey")]

\* fetch for an update that carries a callback query: no authorization check
callbackResult(userId, data, o) ==
    LET userSettings == getUserSettings(USER_DATA, userId, o.getOk)
        lg == userSettings["language"]
        res ==
          IF startsWith(data, PfxModelpage)
          THEN IF ~Truthy(userSettings, "apiKey") \/ o.models = "throw"
               THEN Reply(<<answer(t(lg, "models_list_error_generic"))>>)
               ELSE IF o.models = "ok"
               THEN Reply(<<edit(t(lg, "change_model_prompt")), answer(<<>>)>>)
               ELSE Reply(<<edit(t(lg, "models_list_error_nodata")), answer(<<>>)>>)
          ELSE IF startsWith(data, PfxSetmodel)
          THEN Save(Put(userSettings, "model", substring(data, Len(PfxSetmodel))),
                    <<send(t(lg, "model_set_success")), answer(<<>>)>>)
          ELSE IF data = DataSearchOn
          THEN Save(Put(userSettings, "searchEnabled", TRUE),
                    <<edit(t(lg, "search_toggle_success")), answer(<<>>)>>)
          ELSE IF data = DataSearchOff
          THEN Save(Put(userSettings, "searchEnabled", FALSE),
                    <<edit(t(lg, "search_toggle_success")), answer(<<>>)>>)
          ELSE IF data = DataRevoke
          THEN Save(Del(userSettings, "apiKey"),
                    <<edit(t(lg, "token_revoked")), answer(<<>>)>>)
          ELSE IF data = DataCheck
          THEN Reply(<<edit(t(lg, IF Truthy(userSettings, "apiKey")
                                     /\ verifyOpenRouterKey(userSettings["apiKey"], o)
                                  THEN "token_status_active" ELSE "token_status_invalid")),
                       answer(<<>>)>>)
          ELSE IF startsWith(data, PfxSetpersona)
          THEN LET personaName == substring(data, Len(PfxSetpersona))
               IN IF Has(PERSONAS, personaName)
                  THEN Save(Put(userSettings, "systemPrompt", PERSONAS[personaName]),
                            <<edit(t(lg, "persona_set_success")), answer(<<>>)>>)
                  ELSE Reply(<<>>)
          ELSE Reply(<<answer(t(lg, "generic_error"))>>)
    IN [res |-> res,
        ops |-> <<<<"get", userKey(userId)>>>>
                \o (IF res.put # <<>> THEN <<<<"put", userKey(userId)>>>> ELSE <<>>),
        http |-> 200, keyed |-> Truthy(userSettings, "apiKey")]

\* ---------------------------------------------------------------- actions

\* what the environment does during one inbound event
OptOk ==
    [getOk |-> TRUE, putOk |-> TRUE, sendOk |-> TRUE, verifyOk |-> TRUE, tgOk |-> TRUE,
     models |-> "ok",
     google |-> [ok |-> TRUE, results |-> <<"r1">>],
     bing |-> [ok |-> TRUE, results |-> <<"r2">>],
     cacheGetOk |-> TRUE, cachePutOk |-> TRUE, lastPutOk |-> TRUE]
OptsFaulty ==
    {OptOk, [OptOk EXCEPT !.getOk = FALSE], [OptOk EXCEPT !.putOk = FALSE],
     [OptOk EXCEPT !.sendOk = FALSE], [OptOk EXCEPT !.verifyOk = FALSE],
     [OptOk EXCEPT !.tgOk = FALSE]}

running == {r \in 1..Len(runs) : runs[r].pc # "done"}
inFlight == Cardinality(running)

\* the handler's effects when a transport call throws: the first one does
\* (sent keeps it as the last call made), the top-level catch answers 500,
\* and what came after that call did not happen
effective(r, o) ==
    IF o.tgOk \/ r.res.sent = <<>> THEN r
    ELSE [res |-> Result(<<r.res.sent[1]>>, IF r.res.late THEN <<>> ELSE r.res.put, <<>>,
                         IF r.res.late THEN CACHE ELSE r.res.cache, r.res.late),
          ops |-> IF r.res.late THEN <<r.ops[1]>> ELSE r.ops,
          http |-> 500, keyed |-> r.keyed]

Handle(kind, userId, input, r, o, maxRuns, maxInFlight) ==
    /\ r.res.run # <<>> => Len(runs) < maxRuns /\ inFlight < maxInFlight
    /\ USER_DATA' = IF r.res.put # <<>>
                    THEN setUserSettings(USER_DATA, userId, r.res.put[1], o.putOk)
                    ELSE USER_DATA
    /\ CACHE' = r.res.cache
    /\ runs' = IF r.res.run # <<>>
               THEN Append(runs, [NewRun(Len(runs) + 1, r.res.run[1].settings,
                                         r.res.run[1].prompt, userId)
                                  EXCEPT !.during = running])
               ELSE runs
    /\ last' = [kind |-> kind, userId |-> userId, input |-> input, sent |-> r.res.sent,
                ops |-> r.ops, http |-> r.http, keyed |-> r.keyed,
                started |-> IF r.res.run # <<>> THEN Len(runs) + 1 ELSE 0,
                search |-> IF Has(r.res, "search") THEN r.res["search"] ELSE <<>>,
                lost |-> r.res.put # <<>> /\ ~o.putOk,
                placed |-> o.tgOk /\ o.sendOk,
                verify |-> IF Has(r.res, "verify") THEN r.res["verify"] ELSE <<>>,
                read |-> <<>>, out |-> <<>>]
    /\ UNCHANGED <<env, clock>>

HandleMessage(users, texts, opts, maxRuns, maxInFlight) ==
    \E userId \in users, text \in texts, o \in opts :
        Handle("message", userId, text, effective(messageResult(userId, text, o), o), o,
               maxRuns, maxInFlight)

HandleCallback(users, datas, opts) ==
    \E userId \in users, data \in datas, o \in opts :
        Handle("callback", userId, data, effective(callbackResult(userId, data, o), o), o, 0, 0)

\* streamChatCompletion called with a settings object of the caller's choice
Invoke(users, settingsSet, prompts, maxRuns) ==
    /\ Len(runs) < maxRuns
    /\ \E userId \in users, settings \in settingsSet, userPrompt \in prompts :
           runs' = Append(runs, NewRun(Len(runs) + 1, settings, userPrompt, userId))
    /\ UNCHANGED <<env, USER_DATA, CACHE, clock, last>>

\* no inbound event yet
NoEvent ==
    [kind |-> "none", userId |-> 0, input |-> <<>>, sent |-> <<>>, ops |-> <<>>,
     http |-> 0, keyed |-> FALSE, started |-> 0, search |-> <<>>, lost |-> FALSE,
     placed |-> FALSE, verify |-> <<>>, read |-> <<>>, out |-> <<>>]

\* searchWithFallback called with a query of the caller's choice
Search(queries, opts) ==
    \E query \in queries, o \in opts :
        LET found == searchWithFallback(query, o)
        IN /\ CACHE' = found.cache
           /\ last' = [NoEvent EXCEPT !.kind = "search", !.input = query,
                                      !.search = searched(query, o, found)]
           /\ UNCHANGED <<env, USER_DATA, clock, runs>>

\* getUserSettings called for a user; again tells that the event before was
\* a read of the same user
Read(users, opts) ==
    \E userId \in users, o \in opts :
        /\ last' = [NoEvent EXCEPT
                        !.kind = "read", !.userId = userId,
                        !.read = <<[session |-> getUserSettings(USER_DATA, userId, o.getOk),
                                    got |-> o.getOk,
                                    again |-> last.kind = "read" /\ last.userId = userId]>>]
        /\ UNCHANGED <<env, USER_DATA, CACHE, clock, runs>>

\* detectCommand called with the text given
Detect ==
    /\ last.kind = "text"
    /\ last' = [last EXCEPT !.kind = "detect", !.out = <<detectCommand(last.input)>>]
    /\ UNCHANGED <<env, USER_DATA, CACHE, clock, runs>>

\* levenshteinDistance called with the two strings given
Distance ==
    /\ last.kind = "pair"
    /\ last' = [last EXCEPT !.kind = "distance",
                            !.out = <<levenshteinDistance(last.input[1], last.input[2])>>]
    /\ UNCHANGED <<env, USER_DATA, CACHE, clock, runs>>

\* isUserAuthorized called for the user given
Authorize ==
    /\ last.kind = "user"
    /\ last' = [last EXCEPT !.kind = "authorize", !.out = <<isUserAuthorized(last.userId)>>]
    /\ UNCHANGED <<env, USER_DATA, CACHE, clock, runs>>

\* the wall clock moving on by the given number of ticks
Pass(ticks, maxPasses) ==
    /\ clock + ticks <= ticks * maxPasses
    /\ clock' = clock + ticks
    /\ UNCHANGED <<env, USER_DATA, CACHE, runs, last>>

StepRun(r, res) ==
    /\ runs' = [runs EXCEPT ![r] = res.run]
    /\ USER_DATA' = res.kv
    /\ UNCHANGED <<env, CACHE, clock, last>>

RunStart(streams, responses, maxFaults) ==
    \E r \in 1..Len(runs) :
        /\ runs[r].pc = "start"
        /\ \E T \in FaultSets(runs[r], {"edit_keyreq", "fetch", "edit_status",
                                        "catch_edit", "catch_delete"}, maxFaults),
              response \in responses, body \in streams :
               StepRun(r, startStep(runs[r], USER_DATA, T, response, body))

RunRead(maxFaults) ==
    \E r \in 1..Len(runs) :
        /\ runs[r].pc = "read"
        /\ \E T \in FaultSets(runs[r], {"read", "catch_edit", "catch_delete"}, maxFaults),
              n \in 1..MaxRead :
               /\ n <= Len(runs[r].wire) \/ n = 1
               /\ StepRun(r, readStep(runs[r], USER_DATA, T, n))

RunLine(maxFaults) ==
    \E r \in 1..Len(runs) :
        /\ runs[r].pc = "lines"
        /\ \E T \in FaultSets(runs[r], {"kv_get", "edit", "kv_put"}, maxFaults) :
               StepRun(r, lineStep(runs[r], USER_DATA, T))

RunFinish(maxFaults) ==
    \E r \in 1..Len(runs) :
        /\ runs[r].pc = "final"
        /\ \E T \in FaultSets(runs[r], {"final_edit", "settings_put", "delete",
                                        "catch_edit", "catch_delete"}, maxFaults) :
               StepRun(r, finalStep(runs[r], USER_DATA, T))

Tick ==
    /\ clock < MaxTicks
    /\ clock' = clock + 1
    /\ UNCHANGED <<env, USER_DATA, CACHE, runs, last>>

\* --------------------------------------------------------- specifications

InitWith(environment) ==
    /\ env = environment
    /\ USER_DATA = Empty
    /\ CACHE = Empty
    /\ clock = 0
    /\ runs = <<>>
    /\ last = NoEvent

\* The engine: one user, every provider body of MaxLines lines cut into
\* reads in every way, the wall clock, and exceptions in every call.
Init == InitWith(Empty)
Next ==
    \/ HandleMessage({1}, {TextSetkey, TextAskP, TextPlain}, {OptOk}, MaxRuns, MaxRuns)
    \/ RunStart(Streams(MaxLines), Responses, MaxFaults)
    \/ RunRead(MaxFaults)
    \/ RunLine(MaxFaults)
    \/ RunFinish(MaxFaults)
    \/ Tick
Spec == Init /\ [][Next]_vars

\* The stream: one run of one user over every provider body of MaxLines
\* lines cut into reads in every way, the wall clock, and one exception at
\* most, in any call.
InitStream == InitWith(Empty)
NextStream ==
    \/ HandleMessage({1}, {TextSetkey, TextPlain}, {OptOk}, 1, 1)
    \/ RunStart(Streams(MaxLines), Responses, 1)
    \/ RunRead(1)
    \/ RunLine(1)
    \/ RunFinish(1)
    \/ Tick
SpecStream == InitStream /\ [][NextStream]_vars

\* The stream under fair scheduling: every step of a run that can be taken
\* is taken in the end (each external call returns or throws).  The bodies
\* are those of one line that the provider closes, and those of a terminator
\* line, alone or after a content line, after which the provider leaves the
\* connection open.
NextLive ==
    \/ HandleMessage({1}, {TextSetkey, TextPlain}, {OptOk}, 1, 1)
    \/ RunStart({b : b \in Streams(1) \cup {LineDone \o <<"OPEN">>,
                                             LineA \o LineDone \o <<"OPEN">>}},
                Responses, 1)
    \/ RunRead(1)
    \/ RunLine(1)
    \/ RunFinish(1)
    \/ Tick
SpecLive ==
    /\ InitStream
    /\ [][NextLive]_vars
    /\ WF_vars(RunStart({b : b \in Streams(1) \cup {LineDone \o <<"OPEN">>,
                                                    LineA \o LineDone \o <<"OPEN">>}},
                       Responses, 1))
    /\ WF_vars(RunRead(1))
    /\ WF_vars(RunLine(1))
    /\ WF_vars(RunFinish(1))

\* The dispatcher: two senders, one of them outside the allow-list, messages
\* and callback queries, and up to MaxInFlight overlapping runs over one
\* short provider body; no call fails.
AllowList == <<"1", ",", " ", "3">>
DispTexts == {TextSetkey, TextAskP, TextNewchat}
DispDatas == {DataSetmodel, DataRevoke, DataModelpage}
DispOpts == {OptOk}
ShortStreams == {flatten(<<LineA>>)}

InitDisp == InitWith([ALLOWED_USER_IDS |-> AllowList])
NextDisp ==
    \/ HandleMessage(UserIds, DispTexts, DispOpts, MaxAsks, MaxInFlight)
    \/ HandleCallback(UserIds, DispDatas, DispOpts)
    \/ RunStart(ShortStreams, {"ok"}, 0)
    \/ RunRead(0)
    \/ RunLine(0)
    \/ RunFinish(0)
SpecDisp == InitDisp /\ [][NextDisp]_vars

\* The race: one user whose asks overlap, up to MaxInFlight runs at a time,
\* and who changes the model in between.
InitRace == InitWith(Empty)
NextRace ==
    \/ HandleMessage({1}, {TextSetkey, TextAskP, TextAskQ, TextNewchat}, {OptOk}, MaxAsks,
                     MaxInFlight)
    \/ HandleCallback({1}, {DataSetmodel}, {OptOk})
    \/ RunStart(ShortStreams, {"ok"}, 0)
    \/ RunRead(0)
    \/ RunLine(0)
    \/ RunFinish(0)
SpecRace == InitRace /\ [][NextRace]_vars

\* The credential: one user who sets, resets and revokes the key and asks in
\* between, one run at a time, and for whom streamChatCompletion is also
\* invoked with settings that hold no key; one exception at most in a run.
InitKey == InitWith(Empty)
NextKey ==
    \/ HandleMessage({1}, {TextSetkey, TextAskP, TextPlain, TextReset},
                     {OptOk, [OptOk EXCEPT !.putOk = FALSE]}, MaxRuns, 1)
    \/ HandleCallback({1}, {DataRevoke}, {OptOk, [OptOk EXCEPT !.putOk = FALSE]})
    \/ Invoke({1}, {defaultSettings, Put(defaultSettings, "language", LangId)}, {<<"p">>},
              MaxRuns)
    \/ RunStart(ShortStreams, Responses, 1)
    \/ RunRead(1)
    \/ RunLine(1)
    \/ RunFinish(1)
SpecKey == InitKey /\ [][NextKey]_vars

\* The history: one user asking again and again, one run at a time, so that
\* the stored history outgrows MAX_HISTORY_MESSAGES.
InitHist == InitWith(Empty)
NextHist ==
    \/ HandleMessage({1}, {TextSetkey, TextAskP, TextAskQ, TextNewchat}, {OptOk}, MaxDeep, 1)
    \/ RunStart({flatten(<<LineA>>)}, {"ok"}, 0)
    \/ RunRead(0)
    \/ RunLine(0)
    \/ RunFinish(0)
SpecHist == InitHist /\ [][NextHist]_vars

\* The search aggregator: searchWithFallback called for two queries, with
\* every combination of configured credentials, every outcome of the two
\* providers (results, no results, failure), a cache read or a cache write
\* that throws, and the wall clock moving on by half the time to live.
InitSearch ==
    \E e \in {e : e \in {Put(Put(Put(Empty, "GOOGLE_API_KEY", <<"g">>), "GOOGLE_CX", <<"c">>),
                             "BING_API_KEY", <<"b">>),
                         Put(Put(Empty, "GOOGLE_API_KEY", <<"g">>), "GOOGLE_CX", <<"c">>),
                         Put(Put(Empty, "GOOGLE_API_KEY", <<"g">>), "BING_API_KEY", <<"b">>),
                         Put(Empty, "BING_API_KEY", <<"b">>),
                         Empty}} :
        InitWith(e)
NextSearch ==
    \/ Search({<<"q">>, <<"p">>},
              {o : o \in {[OptOk EXCEPT !.google = g, !.bing = b] :
                              g \in {[ok |-> TRUE, results |-> <<"r1">>],
                                     [ok |-> TRUE, results |-> <<>>],
                                     [ok |-> FALSE, results |-> <<>>]},
                              b \in {[ok |-> TRUE, results |-> <<"r2">>],
                                     [ok |-> TRUE, results |-> <<>>],
                                     [ok |-> FALSE, results |-> <<>>]}}
                          \cup {[OptOk EXCEPT !.cacheGetOk = FALSE],
                                [OptOk EXCEPT !.cachePutOk = FALSE]}})
    \/ Pass((CACHE_TTL * 1000) \div (2 * TickMs), MaxTicks)
SpecSearch == InitSearch /\ [][NextSearch]_vars

\* The search command: one user, with and without a key of their own, who
\* may reset the session, sending
\* /search q with the search credentials configured, every outcome of the two
\* providers, a throwing write of the last-search record or of the session,
\* and the wall clock moving on by half the time to live.
InitCmd ==
    InitWith(Put(Put(Put(Empty, "GOOGLE_API_KEY", <<"g">>), "GOOGLE_CX", <<"c">>),
                 "BING_API_KEY", <<"b">>))
NextCmd ==
    \/ HandleMessage({1}, {TextSetkey, TextSearchQ, TextReset},
                     {o : o \in {[OptOk EXCEPT !.google = g, !.bing = b] :
                                     g \in {[ok |-> TRUE, results |-> <<"r1">>],
                                            [ok |-> TRUE, results |-> <<>>],
                                            [ok |-> FALSE, results |-> <<>>]},
                                     b \in {[ok |-> TRUE, results |-> <<"r2">>],
                                            [ok |-> FALSE, results |-> <<>>]}}
                                 \cup {[OptOk EXCEPT !.lastPutOk = FALSE],
                                       [OptOk EXCEPT !.putOk = FALSE]}},
                     0, 0)
    \/ Pass((CACHE_TTL * 1000) \div (2 * TickMs), MaxTicks)
SpecCmd == InitCmd /\ [][NextCmd]_vars

\* The session store: one user whose stored record is absent, lacks its
\* history, or holds a history that is not an array, changing the session
\* with commands and callbacks (/setkey, /resetsettings, /newchat, revoketoken,
\* a model choice, the search toggle) while reads and writes of the store may
\* fail.  The user also sends plain text and texts with the marker that are
\* no command, with a transport call that may fail; up to MaxRuns runs are
\* started and none of them takes a step.
StoreOpts == {OptOk, [OptOk EXCEPT !.getOk = FALSE], [OptOk EXCEPT !.putOk = FALSE]}
InitStore ==
    /\ env \in {Empty, Put(Empty, "DEFAULT_LANGUAGE", LangId)}
    /\ USER_DATA \in {kv : kv \in {Empty,
                                   Put(Empty, userKey(1), Put(Empty, "model", <<"m">>)),
                                   Put(Empty, userKey(1),
                                       Put(Put(Empty, "language", LangId),
                                           "history", NotArray))}}
    /\ CACHE = Empty
    /\ clock = 0
    /\ runs = <<>>
    /\ last = NoEvent
NextStore ==
    \/ HandleMessage({1}, {TextSetkey, TextReset, TextNewchat}, StoreOpts, 0, 0)
    \/ HandleMessage({1}, {TextPlain, TextUnknown, TextBare},
                     {o : o \in StoreOpts \cup {[OptOk EXCEPT !.sendOk = FALSE],
                                                [OptOk EXCEPT !.tgOk = FALSE]}},
                     MaxRuns, MaxRuns)
    \/ HandleCallback({1}, {DataRevoke, DataSetmodel, DataSearchOff}, StoreOpts)
    \/ Read({1}, StoreOpts)
SpecStore == InitStore /\ [][NextStore]_vars

\* The settings: two senders, one of them outside the allow-list, every
\* command and callback that sets one field of the session and every command
\* that only reads it, on a store that is empty or holds a session with a
\* key and one exchange; the key verification and the read of the session
\* may fail.  No run is started.
InitFrame ==
    /\ env = Put(Put(Put(Empty, "ALLOWED_USER_IDS", AllowList), "GOOGLE_API_KEY", <<"g">>),
                 "GOOGLE_CX", <<"c">>)
    /\ USER_DATA \in {kv : kv \in {Empty,
                                   Put(Empty, userKey(1),
                                       [apiKey |-> <<"k">>,
                                        history |-> <<userEntry(<<"p">>),
                                                      assistantEntry(<<"a">>)>>])}}
    /\ CACHE = Empty
    /\ clock = 0
    /\ runs = <<>>
    /\ last = NoEvent
NextFrame ==
    \/ HandleMessage({1},
                     {x : x \in FrameTexts \cup {TextSetkey, TextNewchat, TextSearchQ,
                                                 TextUnknown, TextStart}},
                     {OptOk}, 0, 0)
    \/ HandleMessage({1}, {TextSetkey, TextStart},
                     {[OptOk EXCEPT !.verifyOk = FALSE], [OptOk EXCEPT !.getOk = FALSE]}, 0, 0)
    \/ HandleMessage({2}, {TextSetkey, TextNewchat}, {OptOk}, 0, 0)
    \/ HandleCallback({1}, {DataSetmodel, DataSearchOn, DataSearchOff, DataRevoke}, {OptOk})
SpecFrame == InitFrame /\ [][NextFrame]_vars

\* The pure functions, each called with the argument drawn at the start:
\* detectCommand with every marked token of at most MaxToken letters of
\* "help" and "o", followed or not by an argument, and with texts that have
\* no marker, no token, capital letters or a token near no command or near
\* two (/setlaey, /sear, /alp, /Hek, /setkng); levenshteinDistance with every two strings of at most MaxWord
\* letters a, b, A; isUserAuthorized for the users of the model with no list
\* and with every list of at most MaxList characters 1, 2, comma, space.
InitPure ==
    /\ USER_DATA = Empty
    /\ CACHE = Empty
    /\ clock = 0
    /\ runs = <<>>
    /\ \/ \E x \in {<<"/">> \o w \o a :
                        w \in SeqsUpTo({"h", "e", "l", "p", "o"}, MaxToken),
                        a \in {<<>>, <<" ", "x">>}}
                   \cup {<<>>, <<"h", "i">>, <<"h", "e", "l", "p">>, <<" ", "/", "a", "s", "k">>,
                         <<"/", "H", "E", "L", "P">>, <<"/", "H", "e", "L", "o", " ", "x">>,
                         <<"/", "h", "e", "l", "o">>, <<"/", "h", "e", "p", "l", " ", "x">>,
                         <<"/", "a", "s", "k">>, <<"/", "a", "k", "s">>,
                         <<"/", "s", "e", "t", "l", "a", "e", "y">>,
                         <<"/", "s", "e", "a", "r", "c", "h", "e", "s">>,
                         <<"/", "s", "e", "a", "r", "c", "h", "e", "s", "s">>,
                         <<"/", "s", "e", "a", "r">>, <<"/", "a", "l", "p">>,
                         <<"/", "H", "e", "k", " ", "x">>,
                         <<"/", "s", "e", "t", "k", "n", "g">>,
                         <<"/", "s", "e", "a", "r", "c", "h", " ", "x">>,
                         <<"/", "S", "e", "t", "l", "a", "n", "g">>,
                         TextUnknown} :
              /\ env = Empty
              /\ last = [NoEvent EXCEPT !.kind = "text", !.input = x]
       \/ \E a, b \in SeqsUpTo({"a", "b", "A"}, MaxWord) :
              /\ env = Empty
              /\ last = [NoEvent EXCEPT !.kind = "pair", !.input = <<a, b>>]
       \/ \E userId \in UserIds :
              /\ \/ env = Empty
                 \/ \E list \in SeqsUpTo({"1", "2", ",", " "}, MaxList)
                                \cup {<<"1", ",", " ", "2">>, <<"3", ",", "1", "2">>,
                                      <<" ", "2", " ", ",", "3">>} :
                        env = [ALLOWED_USER_IDS |-> list]
              /\ last = [NoEvent EXCEPT !.kind = "user", !.userId = userId]
NextPure ==
    \/ Detect
    \/ Distance
    \/ Authorize
SpecPure == InitPure /\ [][NextPure]_vars
\* ----------------------------------------------------------- properties

snapshotHistory(run) == IF Has(run.settings, "history") THEN run.settings["history"] ELSE <<>>
NoKey(settings) == ~Has(settings, "apiKey") \/ settings["apiKey"] = <<>>
Done == {r \in 1..Len(runs) : runs[r].pc = "done"}
\* the positions in a run's edits of the edits of the given kinds
editsOf(run, kinds) == {k \in 1..Len(run.edits) : run.edits[k].kind \in kinds}
EndOfRun == {"final", "nocontent", "status", "failure"}
allReturned(run) == \A k \in 1..Len(run.edits) : run.edits[k].ok

\* C1: every run that terminates after the completion request was opened
\* edits the placeholder exactly once at its end, with the final content or
\* with a failure notice, and never with a failure notice after the final
\* content.  Read in the code's favour: only runs whose editMessageText calls
\* all returned are counted.
ExactlyOneEndOfRunEdit ==
    \A r \in Done :
        (runs[r].requests > 0 /\ allReturned(runs[r]))
            => Cardinality(editsOf(runs[r], EndOfRun)) = 1

\* C2: an event whose sender is outside a non-empty allow-list touches no
\* session record: the handler neither gets nor puts user_<id>.
UnauthorizedTouchesNoSession ==
    (/\ last.kind \in {"message", "callback"}
     /\ Truthy(env, "ALLOWED_USER_IDS")
     /\ ~isUserAuthorized(last.userId))
        => last.ops = <<>>

\* C3: a run that commits writes its own snapshot, with the history derived
\* from that snapshot, over whatever the store holds for the user at that
\* moment: the last write wins.
LastWriteWins ==
    [][\A r \in 1..Len(runs) :
          (runs[r].pc = "final" /\ runs'[r].pc = "done" /\ runs'[r].stored)
              => /\ runs'[r].commit
                      = <<sliceLast(snapshotHistory(runs[r])
                                        \o <<userEntry(runs[r].userPrompt),
                                             assistantEntry(trim(runs[r].currentMessage))>>,
                                    MAX_HISTORY_MESSAGES)>>
                 /\ USER_DATA'[userKey(runs[r].userId)]
                      = Put(runs[r].settings, "history", runs'[r].commit[1])]_vars

\* two runs of one user, the second invoked while the first was in flight,
\* both completed and both stored, and the store holds one exchange only
LostUpdate ==
    \E r1 \in 1..Len(runs), r2 \in 1..Len(runs) :
        /\ r1 \in runs[r2].during
        /\ runs[r1].userId = runs[r2].userId
        /\ runs[r1].state = "COMPLETED" /\ runs[r1].stored
        /\ runs[r2].state = "COMPLETED" /\ runs[r2].stored
        /\ snapshotHistory(runs[r1]) = <<>> /\ snapshotHistory(runs[r2]) = <<>>
        /\ runs[r1].userPrompt # runs[r2].userPrompt
        /\ Has(USER_DATA, userKey(runs[r1].userId))
        /\ Len(USER_DATA[userKey(runs[r1].userId)]["history"]) = 2

\* C4: every user record in the store has a history of at most
\* MAX_HISTORY_MESSAGES entries.
HistoryBounded ==
    \A userId \in UserIds :
        (Has(USER_DATA, userKey(userId)) /\ Has(USER_DATA[userKey(userId)], "history"))
            => Len(USER_DATA[userKey(userId)]["history"]) <= MAX_HISTORY_MESSAGES

\* a run whose snapshot was at the bound has completed and the stored history
\* is at the bound
HistoryAtBound ==
    \E r \in Done :
        /\ runs[r].state = "COMPLETED" /\ runs[r].stored
        /\ Len(snapshotHistory(runs[r])) = MAX_HISTORY_MESSAGES
        /\ Has(USER_DATA, userKey(runs[r].userId))
        /\ Len(USER_DATA[userKey(runs[r].userId)]["history"]) = MAX_HISTORY_MESSAGES

\* C5: a run that completes with snapshot history H, prompt p and final
\* text f hands to the store the last MAX_HISTORY_MESSAGES entries of
\* H ++ [{user, p}, {assistant, f}], entry by entry in the same order.
CommitIsSuffix ==
    \A r \in Done :
        runs[r].state = "COMPLETED"
            => /\ runs[r].commit # <<>>
               /\ LET all == snapshotHistory(runs[r])
                                 \o <<[role |-> "user", content |-> runs[r].userPrompt],
                                      [role |-> "assistant",
                                       content |-> trim(runs[r].currentMessage)]>>
                      c == runs[r].commit[1]
                      drop == IF Len(all) > MAX_HISTORY_MESSAGES
                              THEN Len(all) - MAX_HISTORY_MESSAGES ELSE 0
                  IN /\ Len(c) = Len(all) - drop
                     /\ \A k \in 1..Len(c) : c[k] = all[k + drop]

\* a completed run whose commit dropped the two oldest entries of its snapshot
TruncatingCommit ==
    \E r \in Done :
        /\ runs[r].state = "COMPLETED"
        /\ Len(snapshotHistory(runs[r])) = MAX_HISTORY_MESSAGES
        /\ runs[r].commit # <<>>
        /\ runs[r].commit[1][1] = snapshotHistory(runs[r])[3]
        /\ runs[r].commit[1][1] # snapshotHistory(runs[r])[1]

\* C6: without an apiKey no request goes to the provider and no run reaches
\* STREAMING: a run invoked without one makes a single edit, the localized
\* key_required text, and an /ask with a question or a plain text from a
\* session without one is answered with that text and starts no run.
NoKeyNoRequest ==
    /\ \A r \in 1..Len(runs) :
           NoKey(runs[r].settings)
               => /\ runs[r].requests = 0
                  /\ runs[r].state \in {"STARTED", "FAILED"}
                  /\ runs[r].pc \in {"start", "done"}
                  /\ runs[r].pc = "done"
                       => /\ Len(runs[r].edits) = 1
                          /\ runs[r].edits[1].kind = "keyreq"
                          /\ runs[r].edits[1].text
                               = <<IF Has(runs[r].settings, "language")
                                   THEN runs[r].settings["language"] ELSE LangEn,
                                   "key_required">>
    /\ (last.kind = "message" /\ last.input \in {TextAskP, TextPlain})
           => /\ last.started # 0 => ~NoKey(runs[last.started].settings)
              /\ ~last.keyed => /\ last.started = 0
                                /\ last.sent = <<send(<<LangEn, "key_required">>)>>

\* a run invoked without a credential has ended on its key_required edit, and
\* an /ask with a question from a session without one was just answered
KeylessAnswered ==
    /\ \E r \in Done : NoKey(runs[r].settings) /\ runs[r].edits[1].ok
                         /\ runs[r].settings["language"] = LangId
    /\ last.kind = "message" /\ last.input = TextAskP /\ ~last.keyed
    /\ last.sent = <<send(<<LangEn, "key_required">>)>>

\* C7: two intermediate edits of one run are at least updateInterval apart,
\* whatever the side-record read and write did.
InterimEditsSpaced ==
    \A r \in 1..Len(runs) :
        \A i \in editsOf(runs[r], {"interim"}), j \in editsOf(runs[r], {"interim"}) :
            (i < j /\ runs[r].edits[i].ok /\ runs[r].edits[j].ok)
                => runs[r].edits[j].at - runs[r].edits[i].at >= updateInterval

\* C8: once the terminator line was consumed no fragment of a later data line
\* is appended to the accumulated message.
NothingAfterDone ==
    \A r \in 1..Len(runs) : ~runs[r].lateContent

\* C9: a run in which a call between the request and the final edit threw
\* ends FAILED, with the failure notice edited in and no history committed.
Streaming == {"fetch", "body", "read", "kv_get", "edit", "kv_put", "final_edit"}
ExceptionFails ==
    \A r \in Done :
        (\E k \in 1..Len(runs[r].thrown) : runs[r].thrown[k] \in Streaming)
            => /\ runs[r].state = "FAILED"
               /\ editsOf(runs[r], {"failure"}) # {}
               /\ runs[r].commit = <<>>

\* C10: no side record msg_<messageId> of a terminated run remains in the
\* store.  Read in the code's favour: only runs none of whose KV delete calls
\* threw are counted.
SideRecordCleaned ==
    \A r \in Done :
        (\A k \in 1..Len(runs[r].thrown) : runs[r].thrown[k] \notin {"delete", "catch_delete"})
            => ~Has(USER_DATA, msgKey(runs[r].messageId))
\* the last editMessageText call of a run
lastEdit(run) == run.edits[Len(run.edits)]

\* C11: a data line that does not parse is skipped: the run stays STREAMING
\* with the accumulated message, the edits and the store as they were and the
\* remaining lines still to come; the fragment of a later well-formed data
\* line is appended as before, and the final edit carries the accumulated
\* text (trimmed, when that is not empty).
MalformedSkipped ==
    [][LET Malformed == {<<"D", "bad">>, <<"D">>}
           Fragment == (<<"D", "a">> :> <<"a">>) @@ (<<"D", "sp">> :> <<" ">>)
       IN
       \A r \in 1..Len(runs) :
          /\ (runs[r].pc = "lines" /\ runs'[r] # runs[r] /\ Head(runs[r].lines) \in Malformed)
                => /\ runs'[r] = [runs[r] EXCEPT
                                     !.lines = Tail(@),
                                     !.pc = IF Tail(runs[r].lines) = <<>> THEN "read"
                                            ELSE "lines",
                                     !.parseErrors = @ + 1]
                   /\ runs'[r].state = "STREAMING"
                   /\ USER_DATA' = USER_DATA
          /\ (runs[r].pc = "lines" /\ runs'[r] # runs[r] /\ runs[r].parseErrors > 0
              /\ Head(runs[r].lines) \in DOMAIN Fragment)
                => /\ runs'[r].currentMessage
                        = runs[r].currentMessage \o Fragment[Head(runs[r].lines)]
                   /\ runs'[r].state = "STREAMING"
          /\ (runs[r].pc = "final" /\ runs'[r].pc = "done" /\ runs[r].afterError
              /\ trim(runs[r].currentMessage) # <<>>
              /\ "final_edit" \notin {runs'[r].thrown[k] : k \in 1..Len(runs'[r].thrown)})
                => \E k \in Len(runs[r].edits) + 1..Len(runs'[r].edits) :
                       /\ runs'[r].edits[k].kind = "final"
                       /\ runs'[r].edits[k].text = trim(runs[r].currentMessage)
                       /\ runs'[r].edits[k].ok]_vars

\* a run that skipped a malformed line, appended a fragment that came after
\* it and completed with that text in its final edit
SkippedThenDelivered ==
    \E r \in Done :
        /\ runs[r].state = "COMPLETED" /\ runs[r].thrown = <<>>
        /\ runs[r].parseErrors > 0 /\ runs[r].afterError
        /\ lastEdit(runs[r]).kind = "final"
        /\ lastEdit(runs[r]).text = runs[r].currentMessage
        /\ runs[r].currentMessage = <<"a">>
CompletedIffCommitted ==
    [][\A r \in 1..Len(runs) :
          /\ runs'[r].state # runs[r].state
                => <<runs[r].state, runs'[r].state>>
                      \in {<<"STARTED", "STREAMING">>, <<"STARTED", "FAILED">>,
                           <<"STREAMING", "COMPLETED">>, <<"STREAMING", "FAILED">>}
          /\ (runs[r].state = "STARTED" /\ runs'[r].state = "STREAMING")
                => runs'[r].requests = 1
          /\ runs[r].pc = "done" => runs'[r] = runs[r]
          /\ runs'[r].pc = "done"
                => /\ runs'[r].state \in {"COMPLETED", "FAILED"}
                   /\ runs'[r].state = "COMPLETED" => runs'[r].commit # <<>>
                   /\ (runs'[r].commit # <<>> /\ runs'[r].stored)
                         => runs'[r].state = "COMPLETED"]_vars
\* C14: a call of searchWithFallback that gets results from a provider
\* stores them under the query for 4 hours; a call for a query whose entry
\* has not expired (and whose cache read returns) yields exactly the stored
\* list, calls no provider and leaves the cache as it is; a call for a query
\* whose entry has expired calls a provider again when one is configured.
CacheRoundTrip ==
    [][(clock' = clock /\ last'.kind = "search")
          => LET s == last'.search[1]
                 key == searchKey(s.query)
             IN /\ (s.ok /\ ~s.hit /\ s.cachePutOk)
                      => /\ Has(CACHE', key)
                         /\ CACHE'[key] = [value |-> s.results,
                                           expires |-> Now + 4 * 60 * 60 * 1000]
                /\ (s.cacheGetOk /\ Has(CACHE, key) /\ Now < CACHE[key].expires)
                      => /\ s.ok /\ s.results = CACHE[key].value
                         /\ s.calls = <<>>
                         /\ CACHE' = CACHE
                /\ (Has(CACHE, key) /\ Now >= CACHE[key].expires
                    /\ (Has(env, "BING_API_KEY")
                        \/ (Has(env, "GOOGLE_API_KEY") /\ Has(env, "GOOGLE_CX"))))
                      => s.calls # <<>>]_vars

\* a query answered from the cache, some time after its results were stored
ServedFromCache ==
    /\ last.kind = "search" /\ last.search[1].hit
    /\ last.search[1].results = <<"r1">> /\ last.search[1].calls = <<>>
    /\ Has(CACHE, searchKey(last.input))
    /\ Now > CACHE[searchKey(last.input)].expires - 4 * 60 * 60 * 1000
\* C15: on a cache miss the primary provider is called first when its
\* credentials are configured, and alone when it succeeds; the fallback
\* provider is called exactly when the primary is unconfigured or failed and
\* the fallback credential is configured, after the primary; when the
\* fallback succeeds its results are returned and stored under the query.
FallbackOrdering ==
    [][(clock' = clock /\ last'.kind = "search" /\ ~last'.search[1].hit)
          => LET s == last'.search[1]
                 key == searchKey(s.query)
                 primary == Has(env, "GOOGLE_API_KEY") /\ Has(env, "GOOGLE_CX")
                 fallback == Has(env, "BING_API_KEY")
                 called(p) == \E k \in 1..Len(s.calls) : s.calls[k] = p
             IN /\ called("google") <=> primary
                /\ primary => s.calls[1] = "google"
                /\ (primary /\ s.google.ok)
                      => s.calls = <<"google">> /\ s.ok /\ s.results = s.google.results
                /\ called("bing") <=> (fallback /\ (~primary \/ ~s.google.ok))
                /\ called("bing") => s.calls[Len(s.calls)] = "bing" /\ Len(s.calls) <= 2
                /\ (called("bing") /\ s.bing.ok)
                      => /\ s.ok /\ s.results = s.bing.results
                         /\ s.cachePutOk
                               => Has(CACHE', key) /\ CACHE'[key].value = s.bing.results]_vars

\* the primary failed, the fallback answered, and its results are in the
\* cache
FallbackAnswered ==
    /\ last.kind = "search"
    /\ last.search[1].calls = <<"google", "bing">>
    /\ last.search[1].ok /\ last.search[1].results = <<"r2">>
    /\ Has(CACHE, searchKey(last.input))
    /\ CACHE[searchKey(last.input)].value = <<"r2">>
\* C16: on a cache miss, when the primary provider is unconfigured or fails
\* and the fallback provider is unconfigured or fails, searchWithFallback
\* fails (with its one error, no results) and the cache is exactly as it was:
\* no entry is created and none is refreshed.
BothFailNothingCached ==
    [][(clock' = clock /\ last'.kind = "search" /\ ~last'.search[1].hit)
          => LET s == last'.search[1]
                 primary == Has(env, "GOOGLE_API_KEY") /\ Has(env, "GOOGLE_CX")
                 fallback == Has(env, "BING_API_KEY")
             IN ((~primary \/ ~s.google.ok) /\ (~fallback \/ ~s.bing.ok))
                   => /\ ~s.ok /\ s.results = <<>>
                      /\ CACHE' = CACHE]_vars

\* both providers were called and failed, and the expired entry of the query
\* is still the one in the cache
BothFailedOnExpired ==
    /\ last.kind = "search" /\ ~last.search[1].ok
    /\ last.search[1].calls = <<"google", "bing">>
    /\ Has(CACHE, searchKey(last.input))
    /\ Now >= CACHE[searchKey(last.input)].expires
\* C17: a provider answering with no results is a success, and the empty
\* list is stored under the query; a call for a query whose unexpired entry
\* is the empty list succeeds with the empty list from the cache and calls no
\* provider.
EmptyResultCached ==
    [][(clock' = clock /\ last'.kind = "search")
          => LET s == last'.search[1]
                 key == searchKey(s.query)
                 n == Len(s.calls)
                 answered == IF n = 0 THEN [ok |-> FALSE, results |-> <<>>]
                             ELSE IF s.calls[n] = "google" THEN s.google ELSE s.bing
             IN /\ (~s.hit /\ answered.ok /\ answered.results = <<>>)
                      => /\ s.ok /\ s.results = <<>>
                         /\ s.cachePutOk => Has(CACHE', key) /\ CACHE'[key].value = <<>>
                /\ (s.cacheGetOk /\ Has(CACHE, key) /\ CACHE[key].value = <<>>
                    /\ Now < CACHE[key].expires)
                      => s.hit /\ s.ok /\ s.results = <<>> /\ s.calls = <<>>]_vars

\* a query answered with the empty list from the cache
EmptyServedFromCache ==
    /\ last.kind = "search" /\ last.search[1].hit /\ last.search[1].ok
    /\ last.search[1].results = <<>> /\ last.search[1].calls = <<>>
\* C18: handling /search, the search-error message is shown only if both
\* providers failed, and whenever the search yields a list (from the cache or
\* from a provider) the placeholder is edited to show it, or the no-results
\* text, whatever becomes of the last-search and session writes.
SearchFailsOnlyWhenBothFail ==
    (last.kind = "message" /\ last.search # <<>>)
        => LET s == last.search[1]
               shown == last.sent[Len(last.sent)]
           IN /\ (\E lg \in {LangEn, LangId} : shown = edit(t(lg, "search_error")))
                    => ~s.ok /\ s.calls = <<"google", "bing">>
              /\ s.ok => \E lg \in {LangEn, LangId} :
                             shown = edit(IF s.results # <<>>
                                          THEN t(lg, "search_results_title") \o s.results
                                          ELSE t(lg, "search_no_results"))

\* C19: /search with a query from a user whose session holds no apiKey is
\* answered with the key-required message alone, without a cache lookup and
\* without a provider call.
KeylessSearchBlocked ==
    (last.kind = "message" /\ last.input = TextSearchQ /\ ~last.keyed)
        => /\ \E lg \in {LangEn, LangId} : last.sent = <<send(t(lg, "key_required"))>>
           /\ last.search = <<>>
\* C20: whatever the store holds, getUserSettings returns a session in which
\* language, model, systemPrompt and searchEnabled are defined and history is
\* a sequence; when the read of the store fails it returns the defaults.
SettingsFullyPopulated ==
    \A getOk \in BOOLEAN :
        LET s == getUserSettings(USER_DATA, 1, getOk)
        IN /\ \A f \in {"language", "model", "systemPrompt", "searchEnabled", "history"} :
                  Has(s, f)
           /\ s["language"] # Null /\ s["model"] # Null /\ s["systemPrompt"] # Null
           /\ s["searchEnabled"] \in BOOLEAN
           /\ isArray(s["history"])
           /\ ~getOk => s = defaultSettings

\* after /resetsettings the stored record holds the language alone, and the
\* session read from it has the default model and an empty history
ReadAfterReset ==
    /\ last.input = TextReset
    /\ Has(USER_DATA, userKey(1))
    /\ DOMAIN USER_DATA[userKey(1)] = {"language"}
    /\ getUserSettings(USER_DATA, 1, TRUE)["model"] = defaultSettings["model"]
    /\ getUserSettings(USER_DATA, 1, TRUE)["history"] = <<>>
\* C21: a put that fails inside setUserSettings is not propagated: the
\* handler that asked for the write makes the same transport calls and
\* answers 200 as with a put that returns, the run that commits its history
\* makes its final edit and completes, and the stored record is the one it
\* was.
LostWriteNotPropagated ==
    [][/\ (last' # last /\ last'.lost)
             => LET asIfStored ==
                        IF last'.kind = "message"
                        THEN messageResult(last'.userId, last'.input, OptOk)
                        ELSE callbackResult(last'.userId, last'.input, OptOk)
                IN /\ USER_DATA' = USER_DATA
                   /\ last'.http = 200
                   /\ last'.sent = asIfStored.res.sent
                   /\ asIfStored.res.put # <<>>
                   /\ (last'.started # 0) = (asIfStored.res.run # <<>>)
       /\ \A r \in 1..Len(runs) :
             (runs[r].pc = "final" /\ runs'[r].pc = "done" /\ runs'[r].commit # <<>>
              /\ ~runs'[r].stored /\ runs'[r].thrown = runs[r].thrown)
                => /\ USER_DATA' = Del(USER_DATA, msgKey(runs[r].messageId))
                   /\ runs'[r].state = "COMPLETED"
                   /\ runs'[r].edits = finalStep(runs[r], USER_DATA, {}).run.edits]_vars

\* a run that completed although the write of its history was lost, the
\* stored session still being the one without history
CompletedWithoutStoring ==
    \E r \in Done :
        /\ runs[r].state = "COMPLETED" /\ runs[r].commit # <<>> /\ ~runs[r].stored
        /\ lastEdit(runs[r]).kind = "final"
        /\ Has(USER_DATA, userKey(runs[r].userId))
        /\ USER_DATA[userKey(runs[r].userId)]["history"] = <<>>
UniqueNearCommandMatched ==
    last.kind = "detect"
        => LET input == last.input
               result == last.out[1]
               token == IF input = <<>> \/ input[1] # "/" THEN <<>>
                        ELSE Tail(split(input, " ")[1])
               near == {k \in 1..Len(commands) : levenshteinDistance(commands[k], token) <= 2}
           IN /\ result = Null \/ \E k \in 1..Len(commands) : result = commands[k]
              /\ (input = <<>> \/ input[1] # "/") => result = Null
              /\ token = <<>> => result = Null
              /\ (input # <<>> /\ input[1] = "/" /\ token # <<>>)
                    => /\ \A k \in near : near = {k} => result = commands[k]
                       /\ near = {} => result = Null

\* the text "/helo", one letter away from help alone, was matched to help
HeloIsHelp ==
    /\ last.kind = "detect"
    /\ last.input = <<"/", "h", "e", "l", "o">>
    /\ last.out = <<CmdHelp>>
\* C25: levenshteinDistance is the classic edit distance of the two strings
\* in lower case: it is symmetric, it does not change when the case of
\* letters changes, and it is zero on equal strings (and only on strings
\* equal up to case).
DistanceIsEditDistance ==
    last.kind = "distance"
        => LET a == last.input[1]
               b == last.input[2]
               d == last.out[1]
               lower(x) == [i \in 1..Len(x) |-> IF x[i] = "A" THEN "a"
                                                ELSE IF x[i] = "B" THEN "b" ELSE x[i]]
               recased(x) == {y \in [1..Len(x) -> {"a", "b", "A", "B"}] : lower(y) = lower(x)}
               RECURSIVE classic(_, _, _, _)
               classic(x, y, i, j) ==
                   IF i = 0 THEN j
                   ELSE IF j = 0 THEN i
                   ELSE Min2(Min2(classic(x, y, i - 1, j) + 1, classic(x, y, i, j - 1) + 1),
                             classic(x, y, i - 1, j - 1) + (IF x[i] = y[j] THEN 0 ELSE 1))
           IN /\ d = classic(lower(a), lower(b), Len(a), Len(b))
              /\ d = levenshteinDistance(b, a)
              /\ \A a2 \in recased(a), b2 \in recased(b) : levenshteinDistance(a2, b2) = d
              /\ a = b => d = 0
              /\ levenshteinDistance(a, a) = 0 /\ levenshteinDistance(b, b) = 0
              /\ d = 0 => lower(a) = lower(b)

\* the distance of "Ab" and "ba" is 2, that of "Ab" and "aB" is 0
DistanceOfRecased ==
    /\ last.kind = "distance"
    /\ last.input = <<<<"A", "b">>, <<"b", "a">>>>
    /\ last.out = <<2>>
    /\ levenshteinDistance(<<"A", "b">>, <<"a", "B">>) = 0
\* C26: isUserAuthorized returns true for every user when ALLOWED_USER_IDS is
\* unset or empty; otherwise it returns true exactly when the list has an
\* entry (a maximal stretch without comma) that is the sender's id written as
\* a string with nothing but white space around it.
AuthorizedIffListed ==
    last.kind = "authorize"
        => LET list == IF Has(env, "ALLOWED_USER_IDS") THEN env["ALLOWED_USER_IDS"] ELSE <<>>
               id == Digits[last.userId]
               blank(from, to) == \A k \in from..to : list[k] = " "
               entryAt(p) ==
                   /\ list[p] = id
                   /\ \E from \in 1..p :
                          /\ from = 1 \/ list[from - 1] = ","
                          /\ blank(from, p - 1)
                   /\ \E to \in p..Len(list) :
                          /\ to = Len(list) \/ list[to + 1] = ","
                          /\ blank(p + 1, to)
           IN last.out[1] = (list = <<>> \/ \E p \in 1..Len(list) : entryAt(p))

\* user 2 is authorized by the list '1, 2', user 1 is not by the list ' 2 ,3'
ListedAfterSpace ==
    /\ last.kind = "authorize"
    /\ \/ last.userId = 2 /\ env = [ALLOWED_USER_IDS |-> <<"1", ",", " ", "2">>] /\ last.out = <<TRUE>>
       \/ last.userId = 1 /\ env = [ALLOWED_USER_IDS |-> <<" ", "2", " ", ",", "3">>]
                          /\ last.out = <<FALSE>>
\* C27: for a text that starts with '/' and that detectCommand does not
\* resolve, the dispatcher makes exactly one transport call, the help message
\* in one of the two languages; it starts no streaming run, makes no search
\* and writes neither the session store nor the cache.
UnresolvedCommandShowsHelp ==
    [][(/\ last' # last
        /\ last'.kind = "message"
        /\ startsWith(last'.input, <<"/">>)
        /\ detected[last'.input] = Null)
           => /\ \E lg \in {LangEn, LangId} : last'.sent = <<send(t(lg, "help"))>>
              /\ last'.started = 0
              /\ runs' = runs
              /\ last'.search = <<>>
              /\ last'.ops = <<<<"get", userKey(last'.userId)>>>>
              /\ USER_DATA' = USER_DATA
              /\ CACHE' = CACHE]_vars

\* '/ x', a marker without a token, was answered with the help message by a
\* user whose key is stored
BareMarkerHelped ==
    /\ last.kind = "message"
    /\ last.input = TextBare
    /\ last.keyed
    /\ last.sent = <<send(t(LangEn, "help"))>>

\* C28: text that does not start with '/' and is not blank is an implicit
\* ask.  With an apiKey in the session loaded, the placeholder is the one
\* call made by the handler, and exactly one run is started, with the text as
\* its prompt, when that call returned a message, none otherwise.  With no
\* apiKey the one call is the key-required message and no run is started.
PlainTextIsAsk ==
    [][(/\ last' # last
        /\ last'.kind = "message"
        /\ ~startsWith(last'.input, <<"/">>)
        /\ trim(last'.input) # <<>>)
           => \E lg \in {LangEn, LangId} :
                 IF last'.keyed
                 THEN /\ last'.sent = <<send(t(lg, "ask_thinking"))>>
                      /\ IF last'.placed
                         THEN /\ Len(runs') = Len(runs) + 1
                              /\ last'.started = Len(runs')
                              /\ SubSeq(runs', 1, Len(runs)) = runs
                              /\ runs'[Len(runs')].userPrompt = last'.input
                              /\ runs'[Len(runs')].userId = last'.userId
                              /\ runs'[Len(runs')].pc = "start"
                              /\ Truthy(runs'[Len(runs')].settings, "apiKey")
                         ELSE last'.started = 0 /\ runs' = runs
                 ELSE /\ last'.sent = <<send(t(lg, "key_required"))>>
                      /\ last'.started = 0
                      /\ runs' = runs]_vars

\* 'hi' started a run while a key was stored
PlainTextStarted ==
    /\ last.kind = "message"
    /\ last.input = TextPlain
    /\ last.started # 0
    /\ runs[last.started].userPrompt = TextPlain
    /\ runs[last.started].pc = "start"
\* C29: mutations of one user's session are serialized: the commit of a
\* run's history leaves every other field of the stored session as the
\* handlers left it; in particular a session without apiKey (revoked, or
\* reset) has none after the commit.
CommitKeepsSettings ==
    [][\A r \in 1..Len(runs) :
          LET key == userKey(runs[r].userId)
          IN (/\ runs[r].pc = "final" /\ runs'[r].pc = "done" /\ runs'[r].stored
              /\ Has(USER_DATA, key))
                 => /\ Truthy(USER_DATA'[key], "apiKey") => Truthy(USER_DATA[key], "apiKey")
                    /\ \A field \in (DOMAIN USER_DATA[key] \cup DOMAIN USER_DATA'[key])
                                        \ {"history"} :
                           /\ Has(USER_DATA[key], field) <=> Has(USER_DATA'[key], field)
                           /\ Has(USER_DATA[key], field)
                                  => USER_DATA'[key][field] = USER_DATA[key][field]]_vars
\* C30: line reassembly is independent of read boundaries: when the body has
\* been read to its end, the accumulated message is the concatenation, in
\* order, of the content of the well-formed data lines of the body that
\* precede the terminator line, however the body was cut into reads; the
\* part after the last newline is no line.
ReassemblyIgnoresCuts ==
    \A r \in 1..Len(runs) :
        runs[r].pc = "final"
            => LET parts == split(runs[r].body, "NL")
                   whole == SubSeq(parts, 1, Len(parts) - 1)
                   isDone(line) == line = <<"D", "DONE">>
                   before == {k \in 1..Len(whole) : \A j \in 1..k : ~isDone(whole[j])}
                   RECURSIVE fragments(_)
                   fragments(k) ==
                       IF k \notin before THEN <<>>
                       ELSE (IF whole[k][1] = "D" /\ parseOk(Tail(whole[k]))
                             THEN deltaContent(Tail(whole[k])) ELSE <<>>)
                            \o fragments(k + 1)
               IN runs[r].currentMessage = fragments(1)
\* C31: a streaming run writes the session only on success: the step in
\* which a run ends FAILED leaves the user's stored record, its history
\* included, as it was (absent, or with the same value), and such a run
\* handed no history to setUserSettings.
FailedRunWritesNothing ==
    [][\A r \in 1..Len(runs) :
          LET key == userKey(runs[r].userId)
          IN (runs[r].pc # "done" /\ runs'[r].pc = "done" /\ runs'[r].state = "FAILED")
                 => /\ Has(USER_DATA', key) <=> Has(USER_DATA, key)
                    /\ Has(USER_DATA, key) => USER_DATA'[key] = USER_DATA[key]
                    /\ runs'[r].commit = <<>>]_vars
KeyStoredIffVerified ==
    [][(/\ last' # last
        /\ last'.kind = "message"
        /\ last'.http = 200
        /\ detected[last'.input] = CmdSetkey)
           => LET arg == trim(join(Tail(split(last'.input, " ")), " "))
                  key == userKey(last'.userId)
                  success == \E lg \in {LangEn, LangId} :
                                 \E k \in 1..Len(last'.sent) :
                                     last'.sent[k] = send(t(lg, "key_set_success"))
              IN /\ (last'.verify = <<>>) <=> (arg = <<>>)
                 /\ IF last'.verify = <<TRUE>>
                    THEN /\ Has(USER_DATA', key)
                         /\ Has(USER_DATA'[key], "apiKey")
                         /\ USER_DATA'[key]["apiKey"] = arg
                         /\ success
                    ELSE USER_DATA' = USER_DATA /\ ~success]_vars

\* '/setkey k' was refused by the verification and the sender has no record
UnverifiedKeyRefused ==
    /\ last.kind = "message"
    /\ last.input = TextSetkey
    /\ last.verify = <<FALSE>>
    /\ ~Has(USER_DATA, userKey(last.userId))
\* C34: from an empty store, every stored history is a sequence of complete
\* exchanges: its length is even, the roles alternate beginning with user,
\* and every pair of entries is the prompt and the trimmed reply of one run
\* that committed, so that truncation never keeps a reply without its prompt.
HistoryOfExchanges ==
    \A userId \in UserIds :
        (Has(USER_DATA, userKey(userId)) /\ Has(USER_DATA[userKey(userId)], "history"))
            => LET history == USER_DATA[userKey(userId)]["history"]
               IN /\ Len(history) % 2 = 0
                  /\ \A k \in 1..Len(history) :
                         history[k].role = IF k % 2 = 1 THEN "user" ELSE "assistant"
                  /\ \A k \in 1..(Len(history) \div 2) :
                         \E r \in 1..Len(runs) :
                             /\ runs[r].commit # <<>>
                             /\ history[2 * k - 1].content = runs[r].userPrompt
                             /\ history[2 * k].content = trim(runs[r].currentMessage)

\* a run that started from MAX_HISTORY_MESSAGES entries has committed: the
\* stored history has that length again and begins with a user entry
TruncatedAtExchange ==
    \E r \in 1..Len(runs) :
        /\ runs[r].state = "COMPLETED" /\ runs[r].stored
        /\ Len(runs[r].settings["history"]) = MAX_HISTORY_MESSAGES
        /\ Len(USER_DATA[userKey(runs[r].userId)]["history"]) = MAX_HISTORY_MESSAGES
        /\ USER_DATA[userKey(runs[r].userId)]["history"][1].role = "user"
        /\ USER_DATA[userKey(runs[r].userId)]["history"][MAX_HISTORY_MESSAGES].content
               = trim(runs[r].currentMessage)
\* C35: within one run the texts pushed to the visible message only grow:
\* every throttled edit that returned carries a text that is not blank, is a
\* prefix of the accumulated message, and properly extends the text of the
\* throttled edit before it; the final edit that returned carries the whole
\* accumulated message, trimmed.
PushedTextsGrow ==
    \A r \in 1..Len(runs) :
        LET edits == runs[r].edits
            pushed == {k \in 1..Len(edits) : edits[k].kind = "interim" /\ edits[k].ok}
            prefix(x, y) == Len(x) <= Len(y) /\ SubSeq(y, 1, Len(x)) = x
        IN /\ \A k \in pushed :
                  /\ trim(edits[k].text) # <<>>
                  /\ prefix(edits[k].text, runs[r].currentMessage)
                  /\ \A j \in pushed :
                         j < k => /\ prefix(edits[j].text, edits[k].text)
                                  /\ Len(edits[j].text) < Len(edits[k].text)
           /\ \A k \in 1..Len(edits) :
                  (edits[k].kind = "final" /\ edits[k].ok)
                      => /\ edits[k].text = trim(runs[r].currentMessage)
                         /\ \A j \in pushed : j < k

\* a completed run that pushed two throttled edits and then the final one
TwoPushedThenFinal ==
    \E r \in 1..Len(runs) :
        /\ runs[r].state = "COMPLETED"
        /\ Len(runs[r].edits) = 3
        /\ runs[r].edits[1].kind = "interim" /\ runs[r].edits[1].ok
        /\ runs[r].edits[2].kind = "interim" /\ runs[r].edits[2].ok
        /\ runs[r].edits[3].kind = "final" /\ runs[r].edits[3].ok
        /\ Len(runs[r].edits[1].text) < Len(runs[r].edits[2].text)
\* C36: every started run eventually reaches COMPLETED or FAILED, when every
\* external call returns or throws in the end and the provider's stream
\* signals its end or delivers the terminator line.
RunsTerminate ==
    \A r \in 1..MaxRuns :
        (Len(runs) >= r) ~> (Len(runs) >= r /\ runs[r].state \in {"COMPLETED", "FAILED"})
\* C37: for a token that is not a command, when several commands lie at the
\* same least distance, at most 2, from it, detectCommand returns the one
\* that comes first in the command list; a token that is a command, in any
\* case of letters, is returned itself.
FirstNearestCommandWins ==
    (last.kind = "detect" /\ last.input # <<>> /\ last.input[1] = "/")
        => LET token == toLowerCase(Tail(split(last.input, " ")[1]))
               dist == [k \in 1..Len(commands) |-> levenshteinDistance(commands[k], token)]
               nearest == {k \in 1..Len(commands) : \A j \in 1..Len(commands) : dist[k] <= dist[j]}
               first == CHOOSE k \in nearest : \A j \in nearest : k <= j
               known == \E k \in 1..Len(commands) : commands[k] = token
           IN /\ known => last.out = <<token>>
              /\ (token # <<>> /\ ~known /\ dist[first] <= 2) => last.out = <<commands[first]>>

\* "/sear" is at distance 2 of start and of search, and start was returned
SearIsStart ==
    /\ last.kind = "detect"
    /\ last.input = <<"/", "s", "e", "a", "r">>
    /\ levenshteinDistance(CmdStart, <<"s", "e", "a", "r">>) = 2
    /\ levenshteinDistance(CmdSearch, <<"s", "e", "a", "r">>) = 2
    /\ last.out = <<CmdStart>>

\* ------------------------------------------------ dashboard authentication

\* half hours of wall clock in one behaviour of the dashboard
MaxHalves == 2

\* expiresIn '1h' and '7d', and the expirationTtl of the two blacklist puts,
\* in seconds
ACCESS_TOKEN_EXPIRY == 3600
REFRESH_TOKEN_EXPIRY == 604800
JWT_SECRET == <<"secret">>

\* Math.floor(Date.now() / 1000)
nowSeconds == Now \div 1000

\* jwt.sign({ userId }, secret, { expiresIn }): the payload with iat and exp,
\* and the secret that signed it
sign(userId, secret, issued, expiresIn) ==
    [userId |-> userId, iat |-> issued, exp |-> issued + expiresIn, secret |-> secret]

generateAccessToken(userId) == sign(userId, JWT_SECRET, nowSeconds, ACCESS_TOKEN_EXPIRY)
generateRefreshToken(userId) == sign(userId, JWT_SECRET, nowSeconds, REFRESH_TOKEN_EXPIRY)

\* jwt.verify in a try: <<decoded>>, or <<>> for null when the signature is
\* of another secret or the token has expired
verifyToken(token) ==
    IF token.secret = JWT_SECRET /\ nowSeconds < token.exp
    THEN <<[userId |-> token.userId]>>
    ELSE <<>>

blacklistKey(token) == <<"blacklist", token>>

\* TOKEN_BLACKLIST.put(key, 'revoked', { expirationTtl: expiry })
addToBlacklist(kv, token, expiry) ==
    Put(kv, blacklistKey(token), [value |-> <<"revoked">>, expires |-> Now + expiry * 1000])

\* the parsed Cookie header of a request
cookies(access, refresh) ==
    LET a == IF access = <<>> THEN Empty ELSE Put(Empty, "access_token", access[1])
    IN IF refresh = <<>> THEN a ELSE Put(a, "refresh_token", refresh[1])

NoTokenProvided == [authenticated |-> FALSE, error |-> "No token provided", userId |-> 0]
TokenRevoked == [authenticated |-> FALSE, error |-> "Token revoked", userId |-> 0]
InvalidToken == [authenticated |-> FALSE, error |-> "Invalid token", userId |-> 0]

\* a variant of authenticate that does not read the blacklist
authenticateUnlisted(kv, request) ==
    IF ~Has(request, "access_token") THEN NoTokenProvided
    ELSE IF verifyToken(request["access_token"]) = <<>> THEN InvalidToken
    ELSE [authenticated |-> TRUE, error |-> "", userId |-> request["access_token"].userId]

\* authenticate(request), over the namespace initAuth has bound
authenticate(kv, request) ==
    IF ~Has(request, "access_token") THEN NoTokenProvided
    ELSE IF live(kv, blacklistKey(request["access_token"])) THEN TokenRevoked
    ELSE IF verifyToken(request["access_token"]) = <<>> THEN InvalidToken
    ELSE [authenticated |-> TRUE, error |-> "", userId |-> request["access_token"].userId]

\* functions/api/check-auth.js; getOk is whether TOKEN_BLACKLIST.get returns
onRequestGet(kv, request, getOk) ==
    IF Has(request, "access_token") /\ ~getOk
    THEN [status |-> 500, body |-> <<>>]
    ELSE LET authResult == authenticate(kv, request)
         IN [status |-> IF authResult.authenticated THEN 200 ELSE 401,
             body |-> <<authResult>>]

\* functions/api/logout.js; failAt is the TOKEN_BLACKLIST.put that throws,
\* counted from 1, or 0 when none does
onRequestPost(kv, request, failAt) ==
    LET hasA == Has(request, "access_token")
        hasR == Has(request, "refresh_token")
        puts == (IF hasA THEN 1 ELSE 0) + (IF hasR THEN 1 ELSE 0)
        thrown == failAt >= 1 /\ failAt <= puts
        kvA == IF hasA /\ failAt # 1
               THEN addToBlacklist(kv, request["access_token"], ACCESS_TOKEN_EXPIRY)
               ELSE kv
        kvR == IF hasR /\ ~thrown
               THEN addToBlacklist(kvA, request["refresh_token"], REFRESH_TOKEN_EXPIRY)
               ELSE kvA
    IN [status |-> IF thrown THEN 500 ELSE 200, kv |-> kvR]

\* the instants at which the dashboard is observed: the half hours and the
\* second before each, in ticks of the wall clock
Instants == {i \in {k * (ACCESS_TOKEN_EXPIRY \div 2) - j : k \in 0..MaxHalves, j \in {0, 1}} : i >= 0}
\* the instants at which a login issued tokens
IssuedAt == {0, ACCESS_TOKEN_EXPIRY \div 2}
secondsAt(tick) == (Epoch + tick * TickMs) \div 1000

\* the tokens a client may hold now: those of user 1 issued so far
AccessTokens ==
    {sign(1, JWT_SECRET, secondsAt(i), ACCESS_TOKEN_EXPIRY) : i \in {j \in IssuedAt : j <= clock}}
\* an access token signed with another secret
Forged == sign(1, <<"other">>, secondsAt(0), ACCESS_TOKEN_EXPIRY)
RefreshOf(token) == sign(token.userId, token.secret, token.iat, REFRESH_TOKEN_EXPIRY)

LogoutRequests ==
    {cookies(<<a>>, <<>>) : a \in AccessTokens}
        \cup {cookies(<<a>>, <<RefreshOf(a)>>) : a \in {b \in AccessTokens : b.iat = secondsAt(0)}}
        \cup {cookies(<<>>, <<>>)}
CheckRequests ==
    {cookies(<<a>>, <<>>) : a \in AccessTokens \cup {Forged}} \cup {cookies(<<>>, <<>>)}

\* no request of the dashboard yet; revoked is the set of access tokens a
\* logout has answered 200 for
NoRequest ==
    [kind |-> "none", request |-> Empty, status |-> 0, out |-> <<>>, at |-> 0, revoked |-> {}]

Logout ==
    \E request \in LogoutRequests, failAt \in 0..2 :
        LET res == onRequestPost(env["TOKEN_BLACKLIST"], request, failAt)
        IN /\ env' = Put(env, "TOKEN_BLACKLIST", res.kv)
           /\ last' = [kind |-> "logout", request |-> request, status |-> res.status,
                       out |-> <<>>, at |-> Now,
                       revoked |-> IF res.status = 200 /\ Has(request, "access_token")
                                   THEN last.revoked \cup {request["access_token"]}
                                   ELSE last.revoked]
           /\ UNCHANGED <<USER_DATA, CACHE, clock, runs>>

CheckAuth ==
    \E request \in CheckRequests, getOk \in BOOLEAN :
        LET res == onRequestGet(env["TOKEN_BLACKLIST"], request, getOk)
        IN /\ last' = [kind |-> "check-auth", request |-> request, status |-> res.status,
                       out |-> res.body, at |-> Now, revoked |-> last.revoked]
           /\ UNCHANGED <<env, USER_DATA, CACHE, clock, runs>>

Elapse ==
    /\ \E i \in Instants : i > clock /\ clock' = i
    /\ UNCHANGED <<env, USER_DATA, CACHE, runs, last>>

InitAuth ==
    /\ env = Put(Empty, "TOKEN_BLACKLIST", Empty)
    /\ USER_DATA = Empty
    /\ CACHE = Empty
    /\ clock = 0
    /\ runs = <<>>
    /\ last = NoRequest

NextAuth == Logout \/ CheckAuth \/ Elapse

SpecAuth == InitAuth /\ [][NextAuth]_vars

\* C39: an authenticate call that presents an access token a logout has
\* answered for returns not authenticated, and authenticate reports
\* authenticated only for a token that is present, not on the blacklist and
\* verifies.
LogoutRevokes ==
    (last.kind = "check-auth" /\ last.at = Now /\ last.out # <<>>)
        => LET request == last.request
               authResult == last.out[1]
           IN /\ (Has(request, "access_token") /\ request["access_token"] \in last.revoked)
                      => ~authResult.authenticated
              /\ authResult.authenticated
                      => /\ Has(request, "access_token")
                         /\ ~live(env["TOKEN_BLACKLIST"], blacklistKey(request["access_token"]))
                         /\ verifyToken(request["access_token"]) # <<>>
                         /\ last.status = 200

\* a token that still verifies, presented the second before it expires and
\* after its logout, was answered 401 "Token revoked"
RevokedWhileValid ==
    /\ last.kind = "check-auth" /\ last.at = Now
    /\ Has(last.request, "access_token")
    /\ last.request["access_token"] \in last.revoked
    /\ verifyToken(last.request["access_token"]) # <<>>
    /\ nowSeconds = last.request["access_token"].exp - 1
    /\ last.status = 401
    /\ last.out = <<TokenRevoked>>
====
